---- MODULE Spec2Model ----
(***************************************************************************)
(* siertrichain: the chain core (src/src/blockchain.rs), its transactions  *)
(* (src/src/transaction.rs), triangle geometry (src/src/geometry.rs) and   *)
(* the peer synchronisation of src/src/network.rs.                         *)
(*                                                                         *)
(* SHA-256 digests are modelled as injective constructors over their       *)
(* pre-images: a transaction id is the record of the hashed fields, a      *)
(* merkle node is the pair of its children, a triangle id is its vertex    *)
(* geometry.  Block hashes are small naturals read as the 256-bit value of *)
(* the digest, because Block.hash is a field of the block that the chain   *)
(* never recomputes.                                                       *)
(***************************************************************************)
EXTENDS Integers, Sequences, FiniteSets, TLC

VARIABLES
    blocks,        \* Blockchain.blocks: the active chain, genesis first
    block_index,   \* Blockchain.block_index: hash -> Block
    forks,         \* Blockchain.forks: hash -> Block
    state,         \* Blockchain.state.utxo_set: triangle id -> Triangle
    difficulty,    \* Blockchain.difficulty
    mempool,       \* Blockchain.mempool.transactions: tx id -> Transaction
    db,            \* the node's database: blocks by height, utxo, difficulty
    peers,         \* NetworkNode.peers
    security,      \* SecurityManager: peer identities and token buckets
    mining,        \* the API server's MiningState and its mining task
    system_time,   \* SystemTime::now(), in seconds
    allowed,       \* the requests allowed since the clock last advanced, by kind
    minted,        \* the reward areas of the coinbases of the active chain, summed
    unlisted,      \* the transactions the mempool holds besides those of mempool
    call,          \* the operation that ran last
    arg,           \* its argument
    result,        \* what it returned
    halted         \* TRUE once a handler entered a loop it never leaves

vars == <<blocks, block_index, forks, state, difficulty, mempool, db, peers,
          security, mining, system_time, allowed, minted, unlisted, call, arg, result, halted>>

chainVars == <<blocks, block_index, forks, state, difficulty, mempool>>

-----------------------------------------------------------------------------
(* Bounds of the model *)

MaxBlocks == 4      \* blocks an explored chain indexes besides genesis
MaxTxBlocks == 2    \* the same, where blocks carry arbitrary transaction lists
MaxPool == 2        \* transactions the explored mempool holds
RemoteLength == 2   \* blocks the peer has mined
MaxFeePool == 5     \* transactions the mempool holds when the miner selects by fee
MaxTicks == 1       \* seconds the clock runs past an expiry
MaxRequests == 12   \* requests an entity is allowed within a second
MaxTasks == 2       \* mining tasks that start_mining spawns
MaxListed == 2      \* transactions of a list whose merkle root is taken
MaxNonce == 8       \* the last nonce of mine_block, for u64::MAX

-----------------------------------------------------------------------------
(* Program constants *)

DIFFICULTY_ADJUSTMENT_WINDOW == 2016
TARGET_BLOCK_TIME_SECONDS == 60
INITIAL_MINING_REWARD == 1000
REWARD_HALVING_INTERVAL == 210000
MAX_HALVINGS == 64
MAX_REWARD_AREA == 1000
MAX_DIFFICULTY == 64
MAX_FUTURE_TIMESTAMP_DRIFT == 7200
MAX_TRANSACTIONS == 10000
MAX_PER_ADDRESS == 100

\* u64::MAX, scaled to the 31 bits of the model's integers
U64_MAX == 2147483647

saturating_add(a, b) == IF a > U64_MAX - b THEN U64_MAX ELSE a + b

Max(a, b) == IF a >= b THEN a ELSE b
Min(a, b) == IF a <= b THEN a ELSE b
Last(s) == s[Len(s)]
Range(s) == {s[i] : i \in 1..Len(s)}

\* Option::None
None == [none |-> TRUE]

\* HashMap::insert / HashMap::remove on a function
Insert(m, k, v) == [x \in DOMAIN m \cup {k} |-> IF x = k THEN v ELSE m[x]]
Remove(m, ks) == [x \in DOMAIN m \ ks |-> m[x]]
EmptyMap == [x \in {} |-> None]

\* SecurityManager::new: no peer identity, no token bucket
SecurityManager_new == [peers |-> EmptyMap, limiters |-> EmptyMap]

\* the request kinds of RequestRateLimiter
RequestKinds == {"peer", "api", "transaction"}

\* MiningState::default, with the tasks that start_mining spawned (where
\* each stands, the block it holds, whether a stop_mining that took its
\* handle has returned) and the stop_mining calls that wait for a task
MiningState_default ==
    [is_mining |-> FALSE, blocks_mined |-> 0, mining_task |-> {},
     tasks |-> <<>>, stops |-> {}]

-----------------------------------------------------------------------------
(* Geometry.  A triangle's vertices are named by the path `geo' that leads *)
(* to them (<<0>> the genesis triangle, <<1000 * h, r>> the triangle a     *)
(* coinbase of reward r mints at height h, Append(p, i) the i-th corner    *)
(* child of p) and by `off', a displacement of the vertices: 0 none, 1     *)
(* less than the 1e-9 tolerance of Point::equals, 2 more than it.          *)

Triangle(geo, off, parent_hash, owner) ==
    [geo |-> geo, off |-> off, parent_hash |-> parent_hash, owner |-> owner]

\* Triangle::hash: the digest of the sorted vertex digests; the owner and
\* the parent hash are not part of it, and a displaced vertex prints
\* differently at 15 decimals
TriangleHash(t) == [geo |-> t.geo, off |-> t.off]

\* Point::equals on the three vertices, as SubdivisionTx::validate uses it
VerticesEqual(t, u) ==
    /\ t.geo = u.geo
    /\ \/ t.off = u.off
       \/ {t.off, u.off} = {0, 1}

\* Triangle::subdivide
subdivide(t) ==
    [i \in 1..3 |-> Triangle(Append(t.geo, i - 1), t.off, TriangleHash(t), t.owner)]

genesis_triangle == Triangle(<<0>>, 0, None, "genesis_owner")

GenesisUtxo == Insert(EmptyMap, TriangleHash(genesis_triangle), genesis_triangle)

-----------------------------------------------------------------------------
(* Transactions *)

\* a public key or a signature whose bytes do not parse
Malformed == [malformed |-> TRUE]

Key(name) == [key |-> name]

\* KeyPair::address: the keys of the model are named by the address their
\* public key hashes to
address(public_key) == public_key.key

CoinbaseTx(reward_area, beneficiary_address) ==
    [kind |-> "Coinbase", reward_area |-> reward_area,
     beneficiary_address |-> beneficiary_address]

SubdivisionTx(parent_hash, children, owner_address, fee, nonce, signature, public_key) ==
    [kind |-> "Subdivision", parent_hash |-> parent_hash, children |-> children,
     owner_address |-> owner_address, fee |-> fee, nonce |-> nonce,
     signature |-> signature, public_key |-> public_key]

TransferTx(input_hash, new_owner, sender, fee, nonce, signature, public_key) ==
    [kind |-> "Transfer", input_hash |-> input_hash, new_owner |-> new_owner,
     sender |-> sender, fee |-> fee, nonce |-> nonce,
     signature |-> signature, public_key |-> public_key, memo |-> None]

\* Transaction::hash: the hasher is fed the fields one after the other, so
\* adjacent strings reach it concatenated; signatures are not hashed
TxHash(tx) ==
    CASE tx.kind = "Subdivision" ->
            [children |-> [i \in 1..Len(tx.children) |-> TriangleHash(tx.children[i])],
             fee |-> tx.fee, nonce |-> tx.nonce,
             tag |-> "", id |-> tx.parent_hash, text |-> tx.owner_address]
      [] tx.kind = "Coinbase" ->
            [children |-> <<>>, fee |-> tx.reward_area, nonce |-> 0,
             tag |-> "coinbase", id |-> None, text |-> tx.beneficiary_address]
      [] tx.kind = "Transfer" ->
            [children |-> <<>>, fee |-> tx.fee, nonce |-> tx.nonce,
             tag |-> "transfer", id |-> tx.input_hash, text |-> tx.new_owner \o tx.sender]

\* SubdivisionTx::signable_message and TransferTx::signable_message
signable_message(tx) ==
    CASE tx.kind = "Subdivision" ->
            [children |-> [i \in 1..Len(tx.children) |-> TriangleHash(tx.children[i])],
             fee |-> tx.fee, nonce |-> tx.nonce,
             tag |-> "", id |-> tx.parent_hash, text |-> tx.owner_address]
      [] tx.kind = "Transfer" ->
            [children |-> <<>>, fee |-> tx.fee, nonce |-> tx.nonce,
             tag |-> "TRANSFER:", id |-> tx.input_hash, text |-> tx.new_owner \o tx.sender]

\* KeyPair::sign
Sign(key, message) == [by |-> key, over |-> message]

\* crypto::verify_signature: "CryptoError" for bytes that do not parse, else
\* whether the signature is one of this key over this message
verify_signature(public_key, message, signature) ==
    IF public_key = Malformed \/ signature = Malformed THEN "CryptoError"
    ELSE IF signature.by = public_key /\ signature.over = message THEN "true"
    ELSE "false"

\* SubdivisionTx::validate_signature; TransferTx::validate is the same code
validate_signature(tx) ==
    IF tx.signature = None \/ tx.public_key = None THEN "InvalidTransaction"
    ELSE LET is_valid == verify_signature(tx.public_key, signable_message(tx), tx.signature)
         IN  CASE is_valid = "CryptoError" -> "CryptoError"
               [] is_valid = "false" -> "InvalidTransaction"
               [] is_valid = "true" -> "Ok"

TransferTx_validate(tx) == validate_signature(tx)

\* SubdivisionTx::validate
SubdivisionTx_validate(tx, utxo) ==
    LET sig == validate_signature(tx) IN
    IF sig # "Ok" THEN sig
    ELSE IF tx.parent_hash \notin DOMAIN utxo THEN "TriangleNotFound"
    ELSE IF Len(tx.children) # 3 THEN "InvalidTransaction"
    ELSE LET expected_children == subdivide(utxo[tx.parent_hash]) IN
         IF \A i \in 1..3 : VerticesEqual(tx.children[i], expected_children[i])
         THEN "Ok" ELSE "InvalidTransaction"

\* CoinbaseTx::validate
CoinbaseTx_validate(tx) ==
    IF tx.reward_area = 0 THEN "InvalidTransaction"
    ELSE IF tx.reward_area > MAX_REWARD_AREA THEN "InvalidTransaction"
    ELSE IF tx.beneficiary_address = "" THEN "InvalidTransaction"
    ELSE "Ok"

\* Transaction::fee
fee(tx) == IF tx.kind = "Coinbase" THEN 0 ELSE tx.fee

-----------------------------------------------------------------------------
(* TriangleState.  Each operation returns the state it leaves and what it  *)
(* returned.                                                               *)

Outcome(st, err) == [st |-> st, err |-> err]

RECURSIVE InsertAll(_, _, _)
InsertAll(utxo, children, i) ==
    IF i > Len(children) THEN utxo
    ELSE InsertAll(Insert(utxo, TriangleHash(children[i]), children[i]), children, i + 1)

\* TriangleState::apply_subdivision
apply_subdivision(utxo, tx) ==
    IF tx.parent_hash \notin DOMAIN utxo THEN Outcome(utxo, "TriangleNotFound")
    ELSE Outcome(InsertAll(Remove(utxo, {tx.parent_hash}), tx.children, 1), "Ok")

\* apply_coinbase with the offset of line 76 taken from the size of the UTXO
\* set instead of the block height
apply_coinbase_at_next_slot(utxo, tx, block_height) ==
    IF tx.reward_area <= 0 THEN Outcome(utxo, "InvalidTransaction")
    ELSE LET new_triangle == Triangle(<<Cardinality(DOMAIN utxo) * 1000, tx.reward_area>>, 0,
                                      None, tx.beneficiary_address)
         IN  Outcome(Insert(utxo, TriangleHash(new_triangle), new_triangle), "Ok")

\* TriangleState::apply_coinbase: side = sqrt(2 * reward_area) is positive
\* and finite exactly when reward_area is positive
apply_coinbase(utxo, tx, block_height) ==
    IF tx.reward_area <= 0 THEN Outcome(utxo, "InvalidTransaction")
    ELSE LET new_triangle == Triangle(<<block_height * 1000, tx.reward_area>>, 0,
                                      None, tx.beneficiary_address)
         IN  Outcome(Insert(utxo, TriangleHash(new_triangle), new_triangle), "Ok")

\* apply_transfer without line 631: the owner is left as it was
apply_transfer_keeping_owner(utxo, tx) ==
    IF tx.input_hash \notin DOMAIN utxo THEN Outcome(utxo, "TriangleNotFound")
    ELSE Outcome(utxo, "Ok")

\* the Transfer arm of apply_block's match
apply_transfer(utxo, tx) ==
    IF tx.input_hash \notin DOMAIN utxo THEN Outcome(utxo, "TriangleNotFound")
    ELSE Outcome([utxo EXCEPT ![tx.input_hash].owner = tx.new_owner], "Ok")

apply_transaction(utxo, tx, block_height) ==
    CASE tx.kind = "Subdivision" -> apply_subdivision(utxo, tx)
      [] tx.kind = "Coinbase" -> apply_coinbase(utxo, tx, block_height)
      [] tx.kind = "Transfer" -> apply_transfer(utxo, tx)

\* the loop over a block's transactions; `?' leaves it at the first error
\* with the effects of the earlier transactions in place
RECURSIVE apply_transactions(_, _, _, _)
apply_transactions(utxo, txs, block_height, i) ==
    IF i > Len(txs) THEN Outcome(utxo, "Ok")
    ELSE LET o == apply_transaction(utxo, txs[i], block_height) IN
         IF o.err # "Ok" THEN o
         ELSE apply_transactions(o.st, txs, block_height, i + 1)

-----------------------------------------------------------------------------
(* Blocks *)

BlockHeader(height, previous_hash, timestamp, diff, nonce, merkle_root) ==
    [height |-> height, previous_hash |-> previous_hash, timestamp |-> timestamp,
     difficulty |-> diff, nonce |-> nonce, merkle_root |-> merkle_root]

Block(header, hash, transactions) ==
    [header |-> header, hash |-> hash, transactions |-> transactions]

\* [0; 32] as a merkle root
ZeroDigest == [zero |-> TRUE]

\* one round of the while loop of calculate_merkle_root: an odd level
\* repeats its last hash, then neighbours are hashed in pairs
MerkleLevel(hashes) ==
    LET padded == IF Len(hashes) % 2 # 0 THEN Append(hashes, Last(hashes)) ELSE hashes
    IN  [i \in 1..(Len(padded) \div 2) |-> [l |-> padded[2 * i - 1], r |-> padded[2 * i]]]

RECURSIVE MerkleFold(_)
MerkleFold(hashes) ==
    IF Len(hashes) > 1 THEN MerkleFold(MerkleLevel(hashes)) ELSE hashes[1]

\* Block::calculate_merkle_root
calculate_merkle_root(transactions) ==
    IF transactions = <<>> THEN ZeroDigest
    ELSE MerkleFold([i \in 1..Len(transactions) |-> TxHash(transactions[i])])

RECURSIVE HexDigits(_)
HexDigits(h) == IF h = 0 THEN 0 ELSE 1 + HexDigits(h \div 16)

\* the '0' characters hex::encode(hash) starts with, of its 64
LeadingZeros(hash) == 64 - HexDigits(hash)

\* a merkle root as a number: the all-zero digest, the digest of a pair,
\* a transaction hash
RECURSIVE MerkleNumber(_)
MerkleNumber(root) ==
    IF "zero" \in DOMAIN root THEN 0
    ELSE IF "l" \in DOMAIN root
    THEN 1 + 3 * MerkleNumber(root.l) + 5 * MerkleNumber(root.r)
    ELSE 1 + root.fee + 7 * root.nonce + 11 * Len(root.text) + 13 * Len(root.tag)
           + 17 * Len(root.children)

\* Block::calculate_hash: SHA-256 of the six header fields, as a fixed
\* function of them into the numbers that stand for hashes
calculate_hash(block) ==
    1 + 2 * block.header.height + 3 * block.header.previous_hash
      + 5 * block.header.timestamp + 7 * block.header.difficulty
      + 11 * block.header.nonce + 13 * MerkleNumber(block.header.merkle_root)

\* miner::is_hash_valid
is_hash_valid(hash, diff) == LeadingZeros(hash) >= diff

\* miner::mine_block from a nonce on: the loop of lines 18-28, where
\* checked_add fails at the last nonce
RECURSIVE mine_from(_, _)
mine_from(block, nonce) ==
    LET candidate == [block EXCEPT !.header.nonce = nonce]
        hash == calculate_hash(candidate)
    IN  IF is_hash_valid(hash, block.header.difficulty)
        THEN [err |-> "Ok", block |-> [candidate EXCEPT !.hash = hash]]
        ELSE IF nonce = MaxNonce THEN [err |-> "InvalidProofOfWork", block |-> None]
        ELSE mine_from(block, nonce + 1)

\* miner::mine_block
mine_block(block) == mine_from(block, 0)

\* verify_proof_of_work without the min of line 191
verify_proof_of_work_unclamped(block) ==
    LeadingZeros(block.hash) >= block.header.difficulty

\* Block::verify_proof_of_work
verify_proof_of_work(block) ==
    LeadingZeros(block.hash) >= Min(block.header.difficulty, MAX_DIFFICULTY)

\* Blockchain::calculate_block_reward
RECURSIVE ShiftRight(_, _)
ShiftRight(x, n) == IF n = 0 \/ x = 0 THEN x ELSE ShiftRight(x \div 2, n - 1)

\* the reward without the shift
calculate_block_reward_unhalved(height) ==
    LET halvings == height \div REWARD_HALVING_INTERVAL IN
    IF halvings >= MAX_HALVINGS THEN 0
    ELSE INITIAL_MINING_REWARD

calculate_block_reward(height) ==
    LET halvings == height \div REWARD_HALVING_INTERVAL IN
    IF halvings >= MAX_HALVINGS THEN 0
    ELSE ShiftRight(INITIAL_MINING_REWARD, halvings)

\* Blockchain::calculate_total_fees
RECURSIVE calculate_total_fees_from(_, _, _)
calculate_total_fees_from(transactions, i, acc) ==
    IF i > Len(transactions) THEN acc
    ELSE calculate_total_fees_from(transactions, i + 1,
            IF transactions[i].kind = "Coinbase" THEN acc
            ELSE saturating_add(acc, fee(transactions[i])))

calculate_total_fees(transactions) == calculate_total_fees_from(transactions, 1, 0)

\* validate_block, lines 539-560: the coinbase rules
CoinbaseRules(block) ==
    LET txs == block.transactions
        at == {i \in 1..Len(txs) : txs[i].kind = "Coinbase"}
    IN  IF \E i \in at : i # 1 THEN "InvalidTransaction"
        ELSE IF block.header.height > 0 /\ Cardinality(at) # 1 THEN "InvalidTransaction"
        ELSE "Ok"

\* the reward_area of the last coinbase of the block, 0 without one
coinbase_reward(block) ==
    LET txs == block.transactions
        at == {i \in 1..Len(txs) : txs[i].kind = "Coinbase"}
    IN  IF at = {} THEN 0
        ELSE txs[CHOOSE i \in at : \A j \in at : j <= i].reward_area

\* RewardRule with the reward of height 0 at every height: line 564 without
\* the halvings
RewardRule_without_halving(block) ==
    IF block.header.height > 0
    THEN LET block_reward == INITIAL_MINING_REWARD
             total_fees == calculate_total_fees(block.transactions)
             max_reward == saturating_add(block_reward, total_fees)
         IN  IF coinbase_reward(block) > max_reward THEN "InvalidTransaction" ELSE "Ok"
    ELSE "Ok"

\* validate_block, lines 562-576: the reward bound
RewardRule(block) ==
    IF block.header.height > 0
    THEN LET block_reward == calculate_block_reward(block.header.height)
             total_fees == calculate_total_fees(block.transactions)
             max_reward == saturating_add(block_reward, total_fees)
         IN  IF coinbase_reward(block) > max_reward THEN "InvalidTransaction" ELSE "Ok"
    ELSE "Ok"

\* validate_block, lines 578-600: one transaction against the chain's UTXO
ValidateTx(utxo, tx) ==
    CASE tx.kind = "Subdivision" ->
            IF tx.parent_hash \notin DOMAIN utxo THEN "InvalidTransaction"
            ELSE SubdivisionTx_validate(tx, utxo)
      [] tx.kind = "Coinbase" -> CoinbaseTx_validate(tx)
      [] tx.kind = "Transfer" ->
            IF tx.input_hash \notin DOMAIN utxo THEN "InvalidTransaction"
            ELSE TransferTx_validate(tx)

RECURSIVE ValidateTxs(_, _, _)
ValidateTxs(utxo, txs, i) ==
    IF i > Len(txs) THEN "Ok"
    ELSE LET r == ValidateTx(utxo, txs[i]) IN
         IF r # "Ok" THEN r ELSE ValidateTxs(utxo, txs, i + 1)

\* Blockchain::validate_block; now is the reading of Utc::now()
validate_block(index, utxo, now, block) ==
    IF block.header.previous_hash \notin DOMAIN index THEN "InvalidBlockLinkage"
    ELSE LET parent_block == index[block.header.previous_hash] IN
    IF block.header.height # parent_block.header.height + 1 THEN "InvalidBlockLinkage"
    ELSE IF block.header.timestamp <= parent_block.header.timestamp THEN "InvalidTransaction"
    ELSE IF block.header.timestamp > now + MAX_FUTURE_TIMESTAMP_DRIFT THEN "InvalidTransaction"
    ELSE IF ~verify_proof_of_work(block) THEN "InvalidProofOfWork"
    ELSE IF block.header.merkle_root # calculate_merkle_root(block.transactions)
         THEN "InvalidMerkleRoot"
    ELSE IF CoinbaseRules(block) # "Ok" THEN CoinbaseRules(block)
    ELSE IF RewardRule(block) # "Ok" THEN RewardRule(block)
    ELSE ValidateTxs(utxo, block.transactions, 1)

-----------------------------------------------------------------------------
(* Mempool *)

\* Mempool::remove_transactions
remove_transactions(pool, tx_hashes) == Remove(pool, tx_hashes)

\* the is_valid of Mempool::validate_and_prune
StillValid(utxo, tx) ==
    CASE tx.kind = "Subdivision" ->
            tx.parent_hash \in DOMAIN utxo /\ SubdivisionTx_validate(tx, utxo) = "Ok"
      [] tx.kind = "Transfer" ->
            tx.input_hash \in DOMAIN utxo /\ TransferTx_validate(tx) = "Ok"
      [] tx.kind = "Coinbase" -> FALSE

\* Mempool::validate_and_prune
validate_and_prune(pool, utxo) ==
    Remove(pool, {h \in DOMAIN pool : ~StillValid(utxo, pool[h])})

\* the sender add_transaction counts a transaction under
sender_address(tx) ==
    CASE tx.kind = "Transfer" -> tx.sender
      [] tx.kind = "Subdivision" -> tx.owner_address
      [] tx.kind = "Coinbase" -> None

\* the fee evict_lowest_fee_transaction reads
eviction_fee(tx) == IF tx.kind = "Transfer" THEN tx.fee ELSE 0

\* Mempool::evict_lowest_fee_transaction: the entries it may remove.  The
\* loop keeps the first entry of the map's iteration order whose fee is
\* below every fee before it, which is some entry with the lowest fee.
EvictionChoices(pool) ==
    LET fees == {eviction_fee(pool[h]) : h \in DOMAIN pool}
        lowest_fee == CHOOSE f \in fees : \A g \in fees : f <= g
    IN  {h \in DOMAIN pool : eviction_fee(pool[h]) = lowest_fee}

\* Vec::sort_by(|a, b| b.fee().cmp(&a.fee())) is stable: a transaction goes
\* behind those of the same fee that came before it
RECURSIVE sort_by_fee(_)
sort_by_fee(txs) ==
    IF txs = <<>> THEN <<>>
    ELSE LET sorted == sort_by_fee(SubSeq(txs, 1, Len(txs) - 1))
             tx == Last(txs)
             ahead == Cardinality({i \in 1..Len(sorted) : fee(sorted[i]) >= fee(tx)})
         IN  SubSeq(sorted, 1, ahead) \o <<tx>> \o SubSeq(sorted, ahead + 1, Len(sorted))

\* get_transactions_by_fee without the sort of line 327
get_transactions_unsorted(pool, order, limit) ==
    SubSeq([i \in 1..Len(order) |-> pool[order[i]]], 1, Min(limit, Len(order)))

\* Mempool::get_transactions_by_fee(limit); order is the order in which
\* HashMap::values yields the transactions
get_transactions_by_fee(pool, order, limit) ==
    LET txs == sort_by_fee([i \in 1..Len(order) |-> pool[order[i]]])
    IN  SubSeq(txs, 1, Min(limit, Len(txs)))

-----------------------------------------------------------------------------
(* Chain *)

Reverse(s) == [i \in 1..Len(s) |-> s[Len(s) + 1 - i]]

\* Blockchain::new's genesis block; time is counted from its timestamp
genesis_block ==
    Block(BlockHeader(0, 0, 0, 2, 0, ZeroDigest), 0, <<>>)

\* Blockchain::adjust_difficulty: round(difficulty * clamp(expected / actual,
\* 0.25, 4.0)).max(1), in integers
adjust_difficulty(chain, diff) ==
    IF Len(chain) < DIFFICULTY_ADJUSTMENT_WINDOW THEN diff
    ELSE LET first == chain[Len(chain) - DIFFICULTY_ADJUSTMENT_WINDOW + 1]
             actual_time == Last(chain).header.timestamp - first.header.timestamp
             expected_time == (DIFFICULTY_ADJUSTMENT_WINDOW - 1) * TARGET_BLOCK_TIME_SECONDS
         IN  IF actual_time <= 0 THEN diff
             ELSE IF expected_time >= 4 * actual_time THEN Max(4 * diff, 1)
             ELSE IF 4 * expected_time <= actual_time THEN Max((diff + 2) \div 4, 1)
             ELSE Max((2 * diff * expected_time + actual_time) \div (2 * actual_time), 1)

\* apply_block, lines 656-661: the length of fork_chain, or -1 when the
\* walk through the fork map returns to a hash it has visited and the loop
\* never ends
RECURSIVE fork_chain_len(_, _, _)
fork_chain_len(fork_map, current_hash, seen) ==
    IF current_hash \notin DOMAIN fork_map THEN 1
    ELSE IF current_hash \in seen THEN -1
    ELSE LET rest == fork_chain_len(fork_map, fork_map[current_hash].header.previous_hash,
                                    seen \cup {current_hash})
         IN  IF rest = -1 THEN -1 ELSE rest + 1

\* apply_block, lines 667-678: new_blocks before the reverse, or <<>> when
\* the walk through the block index never reaches a block of height 0
RECURSIVE new_blocks_walk(_, _, _, _)
new_blocks_walk(index, current_block, acc, seen) ==
    LET previous == current_block.header.previous_hash IN
    IF previous \notin DOMAIN index THEN acc
    ELSE IF previous \in seen THEN <<>>
    ELSE LET block == index[previous] IN
         IF block.header.height = 0 THEN acc \o <<current_block, block>>
         ELSE new_blocks_walk(index, block, Append(acc, current_block),
                              seen \cup {previous})

\* apply_block, lines 687-705: the replay of new_blocks[1..]
RECURSIVE replay_blocks(_, _, _)
replay_blocks(utxo, chain, i) ==
    IF i > Len(chain) THEN Outcome(utxo, "Ok")
    ELSE LET o == apply_transactions(utxo, chain[i].transactions,
                                     chain[i].header.height, 1)
         IN  IF o.err # "Ok" THEN o ELSE replay_blocks(o.st, chain, i + 1)

\* a Blockchain value
Chain(bs, index, fork_map, utxo, diff, pool) ==
    [blocks |-> bs, block_index |-> index, forks |-> fork_map, state |-> utxo,
     difficulty |-> diff, mempool |-> pool]

\* what a call leaves: the chain, what it returned, whether it returned
Effect(chain, res, hang) == [chain |-> chain, result |-> res, hang |-> hang]

\* apply_block, lines 611-647: the block extends the active tip
apply_to_tip(self, block) ==
    LET applied == apply_transactions(self.state, block.transactions, block.header.height, 1)
        tx_hashes == {TxHash(block.transactions[i]) : i \in 1..Len(block.transactions)}
        pushed == Append(self.blocks, block)
        block_height == block.header.height
    IN  IF applied.err # "Ok"
        THEN Effect([self EXCEPT !.state = applied.st], applied.err, FALSE)
        ELSE Effect(Chain(pushed,
                          Insert(self.block_index, block.hash, block),
                          self.forks,
                          applied.st,
                          IF block_height > 0 /\ block_height % DIFFICULTY_ADJUSTMENT_WINDOW = 0
                          THEN adjust_difficulty(pushed, self.difficulty)
                          ELSE self.difficulty,
                          validate_and_prune(remove_transactions(self.mempool, tx_hashes),
                                             applied.st)),
                    "Ok", FALSE)

\* reorganize without lines 681-684: the replay starts from the UTXO set of
\* the abandoned chain
reorganize_without_reset(registered, block) ==
    LET walked == new_blocks_walk(registered.block_index, block, <<>>, {})
        new_blocks == Reverse(walked)
        rebuilt == replay_blocks(registered.state, new_blocks, 2)
    IN  IF walked = <<>> THEN Effect(registered, "Hang", TRUE)
        ELSE IF rebuilt.err # "Ok"
        THEN Effect([registered EXCEPT !.state = rebuilt.st], rebuilt.err, FALSE)
        ELSE Effect([registered EXCEPT !.blocks = new_blocks,
                                       !.state = rebuilt.st,
                                       !.mempool = validate_and_prune(registered.mempool,
                                                                      rebuilt.st)],
                    "Ok", FALSE)

\* apply_block, lines 663-711: the reorganization onto the branch of block
reorganize(registered, block) ==
    LET walked == new_blocks_walk(registered.block_index, block, <<>>, {})
        new_blocks == Reverse(walked)
        rebuilt == replay_blocks(GenesisUtxo, new_blocks, 2)
    IN  IF walked = <<>> THEN Effect(registered, "Hang", TRUE)
        ELSE IF rebuilt.err # "Ok"
        THEN Effect([registered EXCEPT !.state = rebuilt.st], rebuilt.err, FALSE)
        ELSE Effect([registered EXCEPT !.blocks = new_blocks,
                                       !.state = rebuilt.st,
                                       !.mempool = validate_and_prune(registered.mempool,
                                                                      rebuilt.st)],
                    "Ok", FALSE)

\* apply_to_fork with the registered block also pushed onto the active chain
apply_to_fork_pushing(self, block) ==
    LET registered == [self EXCEPT !.forks = Insert(self.forks, block.hash, block),
                                   !.block_index = Insert(self.block_index, block.hash, block)]
        fork_len == fork_chain_len(registered.forks, block.header.previous_hash, {})
    IN  IF fork_len = -1 THEN Effect(registered, "Hang", TRUE)
        ELSE IF fork_len > Len(self.blocks) THEN reorganize(registered, block)
        ELSE Effect([registered EXCEPT !.blocks = Append(self.blocks, block)], "Ok", FALSE)

\* apply_to_fork with line 663 reading fork_chain.len() + 1 >= blocks.len():
\* a branch as long as the active chain replaces it
apply_to_fork_on_tie(self, block) ==
    LET registered == [self EXCEPT !.forks = Insert(self.forks, block.hash, block),
                                   !.block_index = Insert(self.block_index, block.hash, block)]
        fork_len == fork_chain_len(registered.forks, block.header.previous_hash, {})
    IN  IF fork_len = -1 THEN Effect(registered, "Hang", TRUE)
        ELSE IF fork_len + 1 >= Len(self.blocks) THEN reorganize(registered, block)
        ELSE Effect(registered, "Ok", FALSE)

\* apply_block, lines 649-711: the block extends a known block that is not
\* the tip
apply_to_fork(self, block) ==
    LET registered == [self EXCEPT !.forks = Insert(self.forks, block.hash, block),
                                   !.block_index = Insert(self.block_index, block.hash, block)]
        fork_len == fork_chain_len(registered.forks, block.header.previous_hash, {})
    IN  IF fork_len = -1 THEN Effect(registered, "Hang", TRUE)
        ELSE IF fork_len > Len(self.blocks) THEN reorganize(registered, block)
        ELSE Effect(registered, "Ok", FALSE)

\* Blockchain::apply_block
apply_block(self, now, block) ==
    LET valid == validate_block(self.block_index, self.state, now, block)
        parent_hash == block.header.previous_hash
        last_block_hash == Last(self.blocks).hash
    IN  IF valid # "Ok" THEN Effect(self, valid, FALSE)
        ELSE IF parent_hash = last_block_hash THEN apply_to_tip(self, block)
        ELSE IF parent_hash \in DOMAIN self.block_index THEN apply_to_fork(self, block)
        ELSE Effect(self, "OrphanBlock", FALSE)

-----------------------------------------------------------------------------
(* The transactions and blocks the chain is offered *)

Signed(tx, key) ==
    [tx EXCEPT !.signature = Sign(key, signable_message(tx)), !.public_key = key]

G == TriangleHash(genesis_triangle)
GChildren == subdivide(genesis_triangle)
G0 == TriangleHash(GChildren[1])

Displaced(children, off) == [i \in 1..Len(children) |-> [children[i] EXCEPT !.off = off]]

Sub1 == Signed(SubdivisionTx(G, GChildren, "A", 0, 1, None, None), Key("A"))
Sub2 == Signed(SubdivisionTx(G, GChildren, "A", 0, 2, None, None), Key("A"))
SubChild == Signed(SubdivisionTx(G0, subdivide(GChildren[1]), "A", 0, 1, None, None), Key("A"))
SubNear == Signed(SubdivisionTx(G, Displaced(GChildren, 1), "B", 0, 1, None, None), Key("B"))
SubFar == Signed(SubdivisionTx(G, Displaced(GChildren, 2), "B", 0, 2, None, None), Key("B"))
SubUnsigned == SubdivisionTx(G, GChildren, "A", 0, 3, None, None)
\* the children of the genesis triangle, with "B" as owner and no parent
SubSeized ==
    Signed(SubdivisionTx(G, [i \in 1..3 |-> [GChildren[i] EXCEPT !.owner = "B",
                                                                  !.parent_hash = None]],
                         "B", 0, 4, None, None), Key("B"))
Xfer1 == Signed(TransferTx(G, "B", "A", 1, 1, None, None), Key("A"))
Xfer2 == Signed(TransferTx(G, "A", "B", 0, 1, None, None), Key("B"))
XferTampered == [Xfer1 EXCEPT !.new_owner = "C"]
XferMalformed == [Xfer2 EXCEPT !.public_key = Malformed, !.nonce = 2]

CB == CoinbaseTx(1000, "A")
CBSmall == CoinbaseTx(500, "B")
CBOver == CoinbaseTx(1001, "A")
CBZero == CoinbaseTx(0, "A")
CBNoAddress == CoinbaseTx(1000, "")

\* transaction lists validate_block accepts on some reachable chain
GoodTxLists ==
    { <<CB>>, <<CBSmall>>, <<CB, Sub1>>, <<CB, Xfer1>>, <<CB, SubChild>>,
      <<CB, SubNear>>, <<CB, Sub1, Sub2>>, <<CB, Xfer1, Xfer2>>,
      <<CB, Xfer1, Sub1>>, <<CB, Sub1, Xfer1>>, <<CB, SubSeized>> }

\* transaction lists validate_block rejects everywhere
BadTxLists ==
    { <<>>, <<Sub1>>, <<Sub1, CB>>, <<CB, CB>>, <<CBOver>>, <<CBOver, Xfer1>>,
      <<CBZero>>, <<CBNoAddress>>, <<CB, SubUnsigned>>, <<CB, SubFar>>,
      <<CB, XferTampered>>, <<CB, XferMalformed>> }

\* transaction lists of the chains explored to depth MaxBlocks
ForkTxLists == { <<CB>>, <<CB, Sub1>>, <<CB, Xfer1>> }

\* what the mempool is offered
PoolTxs == { Sub1, Xfer1, SubUnsigned, CB }

\* the reading of the local clock, in seconds after the genesis timestamp
Clock == 10

\* the smallest hash no indexed block has
FreshHash(index) ==
    CHOOSE h \in 1..(Cardinality(DOMAIN index) + 1) :
        /\ h \notin DOMAIN index
        /\ \A g \in 1..(h - 1) : g \in DOMAIN index

\* a block that is well formed on its parent but for its transactions
BlockOn(index, previous_hash, hash, transactions) ==
    LET known == previous_hash \in DOMAIN index
        height == IF known THEN index[previous_hash].header.height + 1 ELSE 1
        timestamp == IF known THEN index[previous_hash].header.timestamp + 1 ELSE 1
    IN  Block(BlockHeader(height, previous_hash, timestamp, 2, 0,
                          calculate_merkle_root(transactions)),
              hash, transactions)

\* the same block with one header field wrong
FlawedBlocks(b) ==
    { [b EXCEPT !.header.height = b.header.height + 1],
      [b EXCEPT !.header.timestamp = b.header.timestamp - 1],
      [b EXCEPT !.header.timestamp = Clock + MAX_FUTURE_TIMESTAMP_DRIFT + 1],
      [b EXCEPT !.header.difficulty = MAX_DIFFICULTY + 1],
      [b EXCEPT !.header.merkle_root = [l |-> ZeroDigest, r |-> ZeroDigest]] }

-----------------------------------------------------------------------------
(* Actions *)

\* the reward areas the coinbases of a block claim, summed
RECURSIVE BlockMinted(_, _)
BlockMinted(transactions, i) ==
    IF i > Len(transactions) THEN 0
    ELSE (IF transactions[i].kind = "Coinbase" THEN transactions[i].reward_area ELSE 0)
         + BlockMinted(transactions, i + 1)

\* the same over the blocks of a chain
RECURSIVE TotalMinted(_)
TotalMinted(chain) ==
    IF chain = <<>> THEN 0
    ELSE IF Len(chain) = 1 THEN BlockMinted(chain[1].transactions, 1)
    ELSE LET half == Len(chain) \div 2 IN
         TotalMinted(SubSeq(chain, 1, half)) + TotalMinted(SubSeq(chain, half + 1, Len(chain)))

\* minted once the active chain went from old_chain to new_chain
MintedAfter(old_chain, new_chain) ==
    IF new_chain = old_chain THEN minted
    ELSE IF Len(new_chain) = Len(old_chain) + 1 /\ SubSeq(new_chain, 1, Len(old_chain)) = old_chain
    THEN minted + BlockMinted(Last(new_chain).transactions, 1)
    ELSE minted - TotalMinted(old_chain) + TotalMinted(new_chain)

Self == Chain(blocks, block_index, forks, state, difficulty, mempool)

Init ==
    /\ blocks = <<genesis_block>>
    /\ block_index = Insert(EmptyMap, genesis_block.hash, genesis_block)
    /\ forks = EmptyMap
    /\ state = GenesisUtxo
    /\ difficulty = 2
    /\ mempool = EmptyMap
    /\ db = [blocks |-> EmptyMap, utxo_set |-> EmptyMap, difficulty |-> None]
    /\ peers = {}
    /\ security = SecurityManager_new
    /\ mining = MiningState_default
    /\ system_time = Clock
    /\ allowed = [kind \in RequestKinds |-> 0]
    /\ minted = 0
    /\ unlisted = 0
    /\ call = "new"
    /\ arg = None
    /\ result = "Ok"
    /\ halted = FALSE

\* Blockchain::apply_block(block), Utc::now() reading Clock
ApplyBlock(block) ==
    /\ ~halted
    /\ LET e == apply_block(Self, Clock, block) IN
        /\ blocks' = e.chain.blocks
        /\ block_index' = e.chain.block_index
        /\ forks' = e.chain.forks
        /\ state' = e.chain.state
        /\ difficulty' = e.chain.difficulty
        /\ mempool' = e.chain.mempool
        /\ result' = e.result
        /\ halted' = e.hang
    /\ minted' = MintedAfter(blocks, blocks')
    /\ call' = "apply_block"
    /\ arg' = block
    /\ UNCHANGED <<db, peers, security, mining, system_time, allowed, unlisted>>

\* admission without the Coinbase arm of lines 239-243
admission_of_coinbase(pool, tx) ==
    IF TxHash(tx) \in DOMAIN pool THEN "InvalidTransaction"
    ELSE IF tx.kind = "Transfer" THEN TransferTx_validate(tx)
    ELSE IF tx.kind = "Subdivision" THEN validate_signature(tx)
    ELSE "Ok"

\* Mempool::add_transaction, lines 221-270: the checks before the insertion
admission(pool, tx) ==
    IF TxHash(tx) \in DOMAIN pool THEN "InvalidTransaction"
    ELSE LET checked == CASE tx.kind = "Transfer" -> TransferTx_validate(tx)
                          [] tx.kind = "Coinbase" -> "InvalidTransaction"
                          [] tx.kind = "Subdivision" -> validate_signature(tx)
             count == Cardinality({h \in DOMAIN pool :
                                      sender_address(pool[h]) = sender_address(tx)})
         IN  IF checked # "Ok" THEN checked
             ELSE IF count >= MAX_PER_ADDRESS THEN "InvalidTransaction"
             ELSE "Ok"

\* Mempool::add_transaction, lines 272-278: the pools the insertion may leave
admitted(pool, tx) ==
    IF Cardinality(DOMAIN pool) + unlisted >= MAX_TRANSACTIONS
    THEN IF \A h \in DOMAIN pool : eviction_fee(pool[h]) >= U64_MAX
         THEN {Insert(pool, TxHash(tx), tx)}
         ELSE {Insert(Remove(pool, {h}), TxHash(tx), tx) : h \in EvictionChoices(pool)}
    ELSE {Insert(pool, TxHash(tx), tx)}

\* Blockchain.mempool.add_transaction(tx)
AddTransaction(tx) ==
    /\ ~halted
    /\ LET checked == admission(mempool, tx) IN
        /\ result' = checked
        /\ IF checked = "Ok"
           THEN mempool' \in admitted(mempool, tx)
           ELSE mempool' = mempool
    /\ call' = "add_transaction"
    /\ arg' = tx
    /\ UNCHANGED <<blocks, block_index, forks, state, difficulty, db, peers, security, mining, system_time, allowed, minted,
                   unlisted, halted>>

-----------------------------------------------------------------------------
(* Spec: chains of up to MaxTxBlocks blocks with the transaction lists of  *)
(* GoodTxLists and BadTxLists, each block on a hash of its own             *)

\* a hash no indexed block has, other than FreshHash
UnknownHash(index) ==
    CHOOSE h \in 1..(Cardinality(DOMAIN index) + 2) :
        h \notin DOMAIN index /\ h # FreshHash(index)

SubmitBlock ==
    /\ Cardinality(DOMAIN block_index) <= MaxTxBlocks
    /\ \E previous_hash \in DOMAIN block_index \cup {UnknownHash(block_index)} :
       \E transactions \in GoodTxLists :
          ApplyBlock(BlockOn(block_index, previous_hash, FreshHash(block_index), transactions))

SubmitFlawedBlock ==
    /\ Cardinality(DOMAIN block_index) <= MaxTxBlocks
    /\ LET tip == Last(blocks).hash
           fresh == FreshHash(block_index)
       IN  \/ \E block \in FlawedBlocks(BlockOn(block_index, tip, fresh, <<CB>>)) :
                 ApplyBlock(block)
           \/ \E transactions \in BadTxLists :
                 ApplyBlock(BlockOn(block_index, tip, fresh, transactions))

SubmitTransaction ==
    \E tx \in PoolTxs :
       /\ admission(mempool, tx) = "Ok" => Cardinality(DOMAIN mempool) < MaxPool
       /\ AddTransaction(tx)

Next == SubmitBlock \/ SubmitFlawedBlock

Spec == Init /\ [][Next]_vars

-----------------------------------------------------------------------------
(* Peer synchronisation *)

\* validate_chain without the linkage loop of lines 182-195
validate_chain_unlinked(chain) ==
    /\ chain.blocks # <<>>
    /\ \A i \in 1..Len(chain.blocks) :
          /\ verify_proof_of_work(chain.blocks[i])
          /\ chain.blocks[i].header.merkle_root
                = calculate_merkle_root(chain.blocks[i].transactions)

\* NetworkNode::validate_chain
validate_chain(chain) ==
    /\ chain.blocks # <<>>
    /\ \A i \in 1..Len(chain.blocks) :
          /\ verify_proof_of_work(chain.blocks[i])
          /\ chain.blocks[i].header.merkle_root
                = calculate_merkle_root(chain.blocks[i].transactions)
    /\ \A i \in 2..Len(chain.blocks) :
          /\ chain.blocks[i].header.height = chain.blocks[i - 1].header.height + 1
          /\ chain.blocks[i].header.previous_hash = chain.blocks[i - 1].hash

\* Database::save_block for every block of the chain, in order: the rows
\* are keyed by height
RECURSIVE save_blocks(_, _, _)
save_blocks(rows, chain_blocks, i) ==
    IF i > Len(chain_blocks) THEN rows
    ELSE save_blocks(Insert(rows, chain_blocks[i].header.height, chain_blocks[i]),
                     chain_blocks, i + 1)

\* connect_peer, lines 124-135: the database after the saves, the first
\* of which to fail is named by failure
DbFailures == {"none", "open", "save_block", "save_utxo_set", "save_difficulty"}

saved(database, chain, failure) ==
    LET rows == save_blocks(database.blocks, chain.blocks, 1)
        partial == save_blocks(database.blocks, chain.blocks, 2)
    IN  CASE failure = "open" -> database
          [] failure = "save_block" ->
                [database EXCEPT !.blocks = IF Len(chain.blocks) > 1
                                            THEN save_blocks(database.blocks,
                                                    SubSeq(chain.blocks, 1, Len(chain.blocks) - 1), 1)
                                            ELSE database.blocks]
          [] failure = "save_utxo_set" -> [database EXCEPT !.blocks = rows]
          [] failure = "save_difficulty" ->
                [database EXCEPT !.blocks = rows, !.utxo_set = chain.state]
          [] failure = "none" ->
                [blocks |-> rows, utxo_set |-> chain.state, difficulty |-> chain.difficulty]

\* an honest peer's chain: Blockchain::new() and apply_block of one block
\* per transaction list, block i on hash hashes[i]
RECURSIVE Mined(_, _, _, _)
Mined(chain, lists, hashes, i) ==
    IF i > Len(lists) THEN chain
    ELSE Mined(apply_block(chain, Clock,
                           BlockOn(chain.block_index, Last(chain.blocks).hash,
                                   hashes[i], lists[i])).chain,
               lists, hashes, i + 1)

NewChain ==
    Chain(<<genesis_block>>, Insert(EmptyMap, genesis_block.hash, genesis_block),
          EmptyMap, GenesisUtxo, 2, EmptyMap)

\* the hashes of the peer's blocks
RemoteHashes == <<11, 12, 13, 14, 15, 16>>

Honest(n) == Mined(NewChain, [i \in 1..n |-> <<CB>>], RemoteHashes, 1)

\* the chain with block i replaced by f of it, none of the peer's other
\* fields touched
WithBlock(chain, i, block) == [chain EXCEPT !.blocks[i] = block]

\* what a peer may answer GetBlockchain with: its chain as it is, and
\* chains that were made up
RemoteChains(n) ==
    LET honest == Honest(n)
        last == Last(honest.blocks)
        empty == [last EXCEPT !.transactions = <<>>, !.header.merkle_root = ZeroDigest]
    IN  { honest,
          WithBlock(honest, n + 1, empty),
          [honest EXCEPT !.state = GenesisUtxo],
          WithBlock(honest, n + 1, [last EXCEPT !.header.difficulty = MAX_DIFFICULTY]),
          WithBlock(honest, n + 1, [last EXCEPT !.header.merkle_root = ZeroDigest]),
          WithBlock(honest, n + 1, [last EXCEPT !.header.height = n + 1]),
          WithBlock(honest, n + 1, [last EXCEPT !.header.previous_hash = 0]),
          WithBlock(honest, 1, [genesis_block EXCEPT !.hash = 1]),
          [honest EXCEPT !.blocks = <<>>] }

\* the exchanges that produce no chain: the connection, a write or a read
\* fails, or the peer answers with another message
Failures == { [error |-> "io error"], [error |-> "unexpected response"] }

\* NetworkNode::connect_peer(host, port); response is what the exchange
\* with the peer produced, failure the database call that fails
ConnectPeer(peer, response, failure) ==
    /\ ~halted
    /\ call' = "connect_peer"
    /\ arg' = IF response \in Failures THEN response
              ELSE [remote_length |-> Len(response.blocks)]
    /\ halted' = halted
    /\ IF response \in Failures
       THEN /\ result' = "NetworkError"
            /\ UNCHANGED <<blocks, block_index, forks, state, difficulty, mempool, db, peers>>
       ELSE IF Len(response.blocks) > Len(blocks)
       THEN IF ~validate_chain(response)
            THEN /\ result' = "NetworkError"
                 /\ UNCHANGED <<blocks, block_index, forks, state, difficulty, mempool,
                                db, peers>>
            ELSE IF response.blocks[1].hash # blocks[1].hash
            THEN /\ result' = "NetworkError"
                 /\ UNCHANGED <<blocks, block_index, forks, state, difficulty, mempool,
                                db, peers>>
            ELSE /\ blocks' = response.blocks
                 /\ block_index' = response.block_index
                 /\ forks' = response.forks
                 /\ state' = response.state
                 /\ difficulty' = response.difficulty
                 /\ mempool' = response.mempool
                 /\ db' = saved(db, response, failure)
                 /\ IF failure = "none"
                    THEN result' = "Ok" /\ peers' = peers \cup {peer}
                    ELSE result' = "NetworkError" /\ peers' = peers
       ELSE /\ result' = "Ok"
            /\ peers' = peers \cup {peer}
            /\ UNCHANGED <<blocks, block_index, forks, state, difficulty, mempool, db>>
    /\ minted' = MintedAfter(blocks, blocks')
    /\ unlisted' = IF blocks' = blocks THEN unlisted ELSE 0
    /\ UNCHANGED <<security, mining, system_time, allowed>>

-----------------------------------------------------------------------------
(* SpecNet: chains of up to MaxBlocks blocks with the transaction lists of *)
(* ForkTxLists, each block on a hash of its own, and the chains of a        *)
(* peer                                                                    *)

SubmitForkBlock ==
    /\ Cardinality(DOMAIN block_index) <= MaxBlocks
    /\ Len(blocks) <= MaxBlocks
    /\ \E previous_hash \in DOMAIN block_index :
       \E transactions \in ForkTxLists :
          ApplyBlock(BlockOn(block_index, previous_hash, FreshHash(block_index),
                             transactions))

\* what the peer answers with
PeerChains == RemoteChains(RemoteLength)

Sync ==
    /\ Len(blocks) <= MaxBlocks
    /\ \/ \E response \in Failures :
             ConnectPeer("peer", response, "none")
       \/ \E response \in PeerChains :
          \E failure \in IF /\ Len(response.blocks) > Len(blocks)
                             /\ validate_chain(response)
                             /\ response.blocks[1].hash = blocks[1].hash
                          THEN DbFailures ELSE {"none"} :
             ConnectPeer("peer", response, failure)

NextNet == SubmitForkBlock \/ Sync

SpecNet == Init /\ [][NextNet]_vars

-----------------------------------------------------------------------------
(* SpecPool: the same chains, with a mempool *)

NextPool == SubmitForkBlock \/ SubmitTransaction

SpecPool == Init /\ [][NextPool]_vars

-----------------------------------------------------------------------------
(* SpecFork: chains and side branches of up to MaxTxBlocks + 1 blocks on *)
(* the genesis block, with a mempool                                     *)

SubmitSideBlock ==
    /\ Cardinality(DOMAIN block_index) <= MaxTxBlocks + 1
    /\ \E previous_hash \in DOMAIN block_index :
       \E transactions \in {<<CB>>, <<CB, Sub1>>} :
          ApplyBlock(BlockOn(block_index, previous_hash, FreshHash(block_index),
                             transactions))

NextFork == SubmitSideBlock \/ SubmitTransaction

SpecFork == Init /\ [][NextFork]_vars

-----------------------------------------------------------------------------
(* SpecValidate: validate_block at the heights where the block reward      *)
(* changes.  validate_block reads the parent of the block in the index and *)
(* the UTXO set; of a chain grown to the parent's height the model keeps   *)
(* the parent alone.                                                       *)

ParentHeights ==
    { 0, REWARD_HALVING_INTERVAL - 2, REWARD_HALVING_INTERVAL - 1,
      2 * REWARD_HALVING_INTERVAL - 1, 10 * REWARD_HALVING_INTERVAL - 1,
      MAX_HALVINGS * REWARD_HALVING_INTERVAL - 1 }

ParentAt(height) ==
    IF height = 0 THEN genesis_block
    ELSE Block(BlockHeader(height, 0, 1, 2, 0, calculate_merkle_root(<<CB>>)), 1, <<CB>>)

InitValidate ==
    /\ \E height \in ParentHeights :
          /\ blocks = <<ParentAt(height)>>
          /\ block_index = Insert(EmptyMap, ParentAt(height).hash, ParentAt(height))
    /\ forks = EmptyMap
    /\ state = GenesisUtxo
    /\ difficulty = 2
    /\ mempool = EmptyMap
    /\ db = [blocks |-> EmptyMap, utxo_set |-> EmptyMap, difficulty |-> None]
    /\ peers = {}
    /\ security = SecurityManager_new
    /\ mining = MiningState_default
    /\ system_time = Clock
    /\ allowed = [kind \in RequestKinds |-> 0]
    /\ minted = 0
    /\ unlisted = 0
    /\ call = "new"
    /\ arg = None
    /\ result = "Ok"
    /\ halted = FALSE

XferFee2 == Signed(TransferTx(G, "B", "A", 2, 2, None, None), Key("A"))
XferMax == Signed(TransferTx(G, "B", "A", U64_MAX, 3, None, None), Key("A"))

\* the transactions that follow the coinbase, by the fees they declare
FeeLists ==
    { <<>>, <<Xfer1>>, <<XferFee2>>, <<Xfer1, XferFee2>>, <<XferMax>>, <<XferMax, Xfer1>> }

\* the reward areas a coinbase claims at a height: the block reward and
\* what lies just above it, and the two sides of MAX_REWARD_AREA
ClaimedRewards(height) ==
    { calculate_block_reward(height) + d : d \in 0..4 }
        \cup { MAX_REWARD_AREA, MAX_REWARD_AREA + 1 }

\* Blockchain::validate_block(block), Utc::now() reading Clock
ValidateBlock(block) ==
    /\ call' = "validate_block"
    /\ arg' = block
    /\ result' = validate_block(block_index, state, Clock, block)
    /\ UNCHANGED <<blocks, block_index, forks, state, difficulty, mempool, db, peers, security, mining, system_time, allowed,
                   minted, unlisted, halted>>

ValidateRewardBlock ==
    LET parent == Last(blocks) IN
    \E reward_area \in ClaimedRewards(parent.header.height + 1) :
    \E transactions \in FeeLists :
       LET block == BlockOn(block_index, parent.hash, FreshHash(block_index),
                            <<CoinbaseTx(reward_area, "A")>> \o transactions)
       IN  \/ ValidateBlock(block)
           \/ \E flawed \in FlawedBlocks(block) : ValidateBlock(flawed)

\* the difficulties a header declares: none, the chain's, and the two
\* sides of MAX_DIFFICULTY
WorkDifficulties == { 0, 2, MAX_DIFFICULTY - 2, MAX_DIFFICULTY - 1, MAX_DIFFICULTY,
                      MAX_DIFFICULTY + 1 }

\* hashes of 64, 63 and 62 leading zero hex characters
WorkHashes == { 0, 1, 15, 16, 255 }

ValidateWorkBlock ==
    LET parent == Last(blocks)
        reward_area == calculate_block_reward(parent.header.height + 1)
    IN  \E diff \in WorkDifficulties :
        \E hash \in WorkHashes :
           LET block == [BlockOn(block_index, parent.hash, hash,
                                 <<CoinbaseTx(reward_area, "A")>>)
                            EXCEPT !.header.difficulty = diff]
           IN  \/ ValidateBlock(block)
               \/ \E flawed \in FlawedBlocks(block) : ValidateBlock(flawed)

NextValidate == ValidateRewardBlock \/ ValidateWorkBlock

SpecValidate == InitValidate /\ [][NextValidate]_vars

-----------------------------------------------------------------------------
(* SpecSupply: apply_block on chains in which every block so far carried a *)
(* transfer declaring a fee and a coinbase claiming MAX_REWARD_AREA, which *)
(* validate_block accepts at every height.  Of such a chain the model      *)
(* keeps the tip, of its UTXO set the genesis triangle, and in minted the  *)
(* area its coinbases claimed.                                             *)

\* pub const MAX_SUPPLY
MAX_SUPPLY == INITIAL_MINING_REWARD * REWARD_HALVING_INTERVAL * 2

\* the heights of the tips: genesis, the last block before each of the
\* first two halvings, and the second halving
SupplyHeights ==
    { 0, REWARD_HALVING_INTERVAL - 1, 2 * REWARD_HALVING_INTERVAL - 1,
      2 * REWARD_HALVING_INTERVAL }

SupplyTip(height) ==
    IF height = 0 THEN genesis_block
    ELSE Block(BlockHeader(height, 0, 1, 2, 0, calculate_merkle_root(<<CB, XferMax>>)),
               1, <<CB, XferMax>>)

InitSupply ==
    /\ \E height \in SupplyHeights :
          /\ blocks = <<SupplyTip(height)>>
          /\ block_index = Insert(EmptyMap, SupplyTip(height).hash, SupplyTip(height))
          /\ minted = MAX_REWARD_AREA * height
    /\ unlisted = 0
    /\ forks = EmptyMap
    /\ state = GenesisUtxo
    /\ difficulty = 2
    /\ mempool = EmptyMap
    /\ db = [blocks |-> EmptyMap, utxo_set |-> EmptyMap, difficulty |-> None]
    /\ peers = {}
    /\ security = SecurityManager_new
    /\ mining = MiningState_default
    /\ system_time = Clock
    /\ allowed = [kind \in RequestKinds |-> 0]
    /\ call = "new"
    /\ arg = None
    /\ result = "Ok"
    /\ halted = FALSE

\* a block on the tip whose coinbase claims reward_area
MineBlock ==
    /\ Cardinality(DOMAIN block_index) <= MaxTxBlocks
    /\ LET parent == Last(blocks) IN
       \E reward_area \in { calculate_block_reward(parent.header.height + 1),
                            MAX_REWARD_AREA, MAX_REWARD_AREA + 1 } :
       \E transactions \in { <<>>, <<Xfer1>>, <<XferMax>> } :
          ApplyBlock(BlockOn(block_index, parent.hash, FreshHash(block_index),
                             <<CoinbaseTx(reward_area, "A")>> \o transactions))

NextSupply == MineBlock

SpecSupply == InitSupply /\ [][NextSupply]_vars

-----------------------------------------------------------------------------
(* SpecRehash: coinbase blocks on hashes of their own, and indexed blocks  *)
(* mined again.  Block.hash is a field of the submitted block that neither *)
(* validate_block nor apply_block compares with calculate_hash, so a block *)
(* mined again at a later time can carry the hash of the block it repeats. *)

SubmitCoinbaseBlock ==
    /\ Cardinality(DOMAIN block_index) <= MaxBlocks
    /\ \E previous_hash \in DOMAIN block_index :
          ApplyBlock(BlockOn(block_index, previous_hash, FreshHash(block_index), <<CB>>))

\* an indexed block with the timestamp of the present, under the same hash
ResubmitBlock ==
    \E hash \in DOMAIN block_index \ {genesis_block.hash} :
       ApplyBlock([block_index[hash] EXCEPT !.header.timestamp = Clock])

NextRehash == SubmitCoinbaseBlock \/ ResubmitBlock

SpecRehash == Init /\ [][NextRehash]_vars

-----------------------------------------------------------------------------------------------------------------------------------------------------
(* SpecRetarget: apply_block at the heights where it adjusts the           *)
(* difficulty, on chains mined from genesis one block a second.  Such a    *)
(* chain reaches its k-th retarget with the difficulty the earlier ones    *)
(* left, 2 * 4^(k-1); the model keeps its last DIFFICULTY_ADJUSTMENT_WINDOW *)
(* blocks, which for k = 1 is the chain from genesis, and of its UTXO set  *)
(* the genesis triangle.                                                   *)

\* the retargets explored
Retargets == {1, 2, 3}

\* the block of a height in a chain mined one block a second; its hash is
\* its height
MinedFast(height) ==
    IF height = 0 THEN genesis_block
    ELSE Block(BlockHeader(height, height - 1, height, 2, 0, calculate_merkle_root(<<CB>>)),
               height, <<CB>>)

RECURSIVE Power(_, _)
Power(base, n) == IF n = 0 THEN 1 ELSE base * Power(base, n - 1)

InitRetarget ==
    /\ \E k \in Retargets :
          LET first == (k - 1) * DIFFICULTY_ADJUSTMENT_WINDOW IN
          /\ blocks = [i \in 1..DIFFICULTY_ADJUSTMENT_WINDOW |-> MinedFast(first + i - 1)]
          /\ block_index = [hash \in first..(first + DIFFICULTY_ADJUSTMENT_WINDOW - 1)
                               |-> MinedFast(hash)]
          /\ difficulty = 2 * Power(4, k - 1)
          /\ minted = MAX_REWARD_AREA * (k * DIFFICULTY_ADJUSTMENT_WINDOW - 1)
    /\ unlisted = 0
    /\ forks = EmptyMap
    /\ state = GenesisUtxo
    /\ mempool = EmptyMap
    /\ db = [blocks |-> EmptyMap, utxo_set |-> EmptyMap, difficulty |-> None]
    /\ peers = {}
    /\ security = SecurityManager_new
    /\ mining = MiningState_default
    /\ system_time = Clock
    /\ allowed = [kind \in RequestKinds |-> 0]
    /\ call = "new"
    /\ arg = None
    /\ result = "Ok"
    /\ halted = FALSE

\* a block on the tip, one to four seconds after it
MineOnTip ==
    /\ Len(blocks) < DIFFICULTY_ADJUSTMENT_WINDOW + MaxTxBlocks
    /\ LET block == BlockOn(block_index, Last(blocks).hash, FreshHash(block_index), <<CB>>)
       IN  \/ \E later \in 0..3 :
                 ApplyBlock([block EXCEPT !.header.timestamp = @ + later])
           \/ \E flawed \in FlawedBlocks(block) : ApplyBlock(flawed)

NextRetarget == MineOnTip

SpecRetarget == InitRetarget /\ [][NextRetarget]_vars

-----------------------------------------------------------------------------------------------------------------------------------------------------
(* SpecFull: the mempool at MAX_TRANSACTIONS.  add_transaction filled it   *)
(* with MAX_PER_ADDRESS transfers of the genesis triangle from each of     *)
(* MAX_TRANSACTIONS / MAX_PER_ADDRESS senders, each declaring the fee      *)
(* u64::MAX.  The model lists in mempool the transfers of sender "A", the  *)
(* first of which may declare no fee instead, and counts the others in     *)
(* unlisted; no later call names an unlisted transaction or its sender.    *)

\* the nonce-th transfer of sender "A"
Queued(nonce, declared_fee) ==
    Signed(TransferTx(G, "B", "A", declared_fee, nonce, None, None), Key("A"))

\* Mempool.transactions after the insertions of the transfers lo..hi of "A"
RECURSIVE PoolOf(_, _, _)
PoolOf(lo, hi, first_fee) ==
    IF lo = hi
    THEN LET tx == Queued(lo, IF lo = 1 THEN first_fee ELSE U64_MAX)
         IN  TxHash(tx) :> tx
    ELSE LET mid == (lo + hi) \div 2
         IN  PoolOf(lo, mid, first_fee) @@ PoolOf(mid + 1, hi, first_fee)

InitFull ==
    /\ blocks = <<genesis_block>>
    /\ block_index = Insert(EmptyMap, genesis_block.hash, genesis_block)
    /\ forks = EmptyMap
    /\ state = GenesisUtxo
    /\ difficulty = 2
    /\ \E first_fee \in {0, U64_MAX} : mempool = PoolOf(1, MAX_PER_ADDRESS, first_fee)
    /\ unlisted = MAX_TRANSACTIONS - MAX_PER_ADDRESS
    /\ db = [blocks |-> EmptyMap, utxo_set |-> EmptyMap, difficulty |-> None]
    /\ peers = {}
    /\ security = SecurityManager_new
    /\ mining = MiningState_default
    /\ system_time = Clock
    /\ allowed = [kind \in RequestKinds |-> 0]
    /\ minted = 0
    /\ call = "new"
    /\ arg = None
    /\ result = "Ok"
    /\ halted = FALSE

\* what arrives at the full mempool: transfers of a sender it has not seen,
\* one more transfer of "A", a transfer it holds, a coinbase, an unsigned
\* subdivision, and transfers whose signature is of another message or
\* whose key does not parse
LateTxs ==
    { Signed(TransferTx(G, "B", "C", U64_MAX, 1, None, None), Key("C")),
      Signed(TransferTx(G, "B", "C", 1, 2, None, None), Key("C")),
      Queued(MAX_PER_ADDRESS + 1, U64_MAX), Queued(2, U64_MAX), CB, SubUnsigned,
      XferTampered, XferMalformed }

SubmitLateTransaction ==
    /\ Cardinality(DOMAIN mempool) + unlisted < MAX_TRANSACTIONS + MaxPool
    /\ \E tx \in LateTxs : AddTransaction(tx)

\* Mempool::remove_transaction(tx_hash)
RemoveTransaction(tx_hash) ==
    /\ mempool' = Remove(mempool, {tx_hash})
    /\ call' = "remove_transaction"
    /\ arg' = [tx_hash |-> tx_hash]
    /\ result' = IF tx_hash \in DOMAIN mempool THEN "Some" ELSE "None"
    /\ UNCHANGED <<blocks, block_index, forks, state, difficulty, db, peers, security, mining, system_time, allowed, minted,
                   unlisted, halted>>

RemoveQueued ==
    /\ Cardinality(DOMAIN mempool) + unlisted >= MAX_TRANSACTIONS
    /\ \E tx \in { Queued(2, U64_MAX), Queued(3, U64_MAX) } :
          RemoveTransaction(TxHash(tx))

\* Mempool::validate_and_prune(state)
ValidateAndPrune ==
    /\ mempool' = validate_and_prune(mempool, state)
    /\ call' = "validate_and_prune"
    /\ arg' = None
    /\ result' = "Ok"
    /\ UNCHANGED <<blocks, block_index, forks, state, difficulty, db, peers, security, mining, system_time, allowed, minted,
                   unlisted, halted>>

NextFull == SubmitLateTransaction \/ RemoveQueued \/ ValidateAndPrune

SpecFull == InitFull /\ [][NextFull]_vars

-----------------------------------------------------------------------------
(* SpecFees: a mempool of up to MaxFeePool transactions of different and   *)
(* of equal fees, from which the miner selects by fee                      *)

\* the subdivisions of test_mempool_fee_prioritization
FeeSub(declared_fee, nonce) ==
    Signed(SubdivisionTx(G, GChildren, "A", declared_fee, nonce, None, None), Key("A"))

\* those five, and a transfer declaring the fee of one of them
FeeTxs ==
    { FeeSub(10, 0), FeeSub(50, 1), FeeSub(25, 2), FeeSub(100, 3), FeeSub(5, 4),
      Signed(TransferTx(G, "B", "A", 25, 5, None, None), Key("A")) }

SubmitFeeTransaction ==
    /\ Cardinality(DOMAIN mempool) < MaxFeePool
    /\ \E tx \in FeeTxs : AddTransaction(tx)

\* the orders in which a HashMap can yield the elements of a set
RECURSIVE Orders(_)
Orders(S) ==
    IF S = {} THEN {<<>>}
    ELSE UNION {{<<x>> \o order : order \in Orders(S \ {x})} : x \in S}

\* Mempool::get_all_transactions: the values of the HashMap, in whatever
\* order its iterator yields them
get_all_transactions(pool) == Orders({pool[h] : h \in DOMAIN pool})

\* Mempool::get_transactions_by_fee(limit)
GetTransactionsByFee(limit) ==
    /\ \E order \in Orders(DOMAIN mempool) :
          result' = get_transactions_by_fee(mempool, order, limit)
    /\ call' = "get_transactions_by_fee"
    /\ arg' = [limit |-> limit]
    /\ UNCHANGED <<blocks, block_index, forks, state, difficulty, mempool, db, peers, security, mining, system_time, allowed,
                   minted, unlisted, halted>>

SelectByFee == \E limit \in {0, 1, 3, MaxFeePool, MaxFeePool + 1} : GetTransactionsByFee(limit)

NextFees == SubmitFeeTransaction \/ SelectByFee

SpecFees == Init /\ [][NextFees]_vars

-----------------------------------------------------------------------------
(* SpecSave: the miner's database.  A row of the blocks table is modelled  *)
(* as the block it encodes and a triangle_data text as the triangle it     *)
(* encodes: every column is read back by the inverse of the conversion     *)
(* that wrote it.                                                          *)

\* the steps of save_blockchain_state at which it can end early: opening
\* the transaction, each statement, the commit, and the process stopping
\* before the commit
SaveFailures ==
    {"none", "unchecked_transaction", "insert block", "clear utxo_set", "insert utxo",
     "insert difficulty", "commit", "stopped"}

\* the statements of save_blockchain_state in order, up to the one that
\* fails: the pending writes of its SQL transaction
statements(database, block, st, d, failure) ==
    LET with_block == [database EXCEPT !.blocks = Insert(@, block.header.height, block)]
        cleared == [with_block EXCEPT !.utxo_set = EmptyMap]
        with_utxo == [cleared EXCEPT !.utxo_set = st]
        with_difficulty == [with_utxo EXCEPT !.difficulty = d]
    IN  CASE failure \in {"unchecked_transaction", "insert block"} -> database
          [] failure = "clear utxo_set" -> with_block
          [] failure = "insert utxo" -> cleared
          [] failure = "insert difficulty" -> with_utxo
          [] OTHER -> with_difficulty

\* the same statements, each committed as it runs
save_blockchain_state_autocommit(database, block, st, d, failure) ==
    [database |-> statements(database, block, st, d, failure),
     result |-> IF failure = "none" THEN "Ok"
                ELSE IF failure = "stopped" THEN "Stopped" ELSE "DatabaseError"]

\* Database::save_blockchain_state(block, state, difficulty): the pending
\* writes reach the database at tx.commit(); a `?' return drops tx, which
\* rolls them back, and so does the journal when the process stops
save_blockchain_state(database, block, st, d, failure) ==
    [database |-> IF failure = "none" THEN statements(database, block, st, d, failure)
                  ELSE database,
     result |-> IF failure = "none" THEN "Ok"
                ELSE IF failure = "stopped" THEN "Stopped" ELSE "DatabaseError"]

\* SELECT ... FROM blocks ORDER BY height ASC
RECURSIVE OrderByHeight(_)
OrderByHeight(rows) ==
    IF DOMAIN rows = {} THEN <<>>
    ELSE LET lowest == CHOOSE h \in DOMAIN rows : \A g \in DOMAIN rows : h <= g
         IN  <<rows[lowest]>> \o OrderByHeight(Remove(rows, {lowest}))

\* Database::load_blockchain
load_blockchain(database) ==
    IF DOMAIN database.blocks = {} THEN NewChain
    ELSE LET loaded == OrderByHeight(database.blocks)
             hashes == {loaded[i].hash : i \in 1..Len(loaded)}
             latest(hash) == CHOOSE i \in 1..Len(loaded) :
                                /\ loaded[i].hash = hash
                                /\ \A j \in 1..Len(loaded) : loaded[j].hash = hash => j <= i
         IN  Chain(loaded, [hash \in hashes |-> loaded[latest(hash)]], EmptyMap,
                   database.utxo_set,
                   IF database.difficulty \in Nat THEN database.difficulty ELSE 2,
                   EmptyMap)

\* a coinbase block is mined on any indexed block
MineForSave ==
    /\ Cardinality(DOMAIN block_index) <= MaxTxBlocks
    /\ \E previous_hash \in DOMAIN block_index :
          ApplyBlock(BlockOn(block_index, previous_hash, FreshHash(block_index), <<CB>>))

\* db.save_blockchain_state(&block, &chain.state, chain.difficulty)
SaveBlockchainState(block, failure) ==
    /\ ~halted
    /\ LET e == save_blockchain_state(db, block, state, difficulty, failure) IN
        /\ db' = e.database
        /\ result' = e.result
    /\ call' = "save_blockchain_state"
    /\ arg' = [block |-> block, state |-> state, difficulty |-> difficulty]
    /\ halted' = (failure = "stopped")
    /\ UNCHANGED <<blocks, block_index, forks, state, difficulty, mempool, peers, security, mining, system_time, allowed,
                   minted, unlisted>>

\* the miner saves the block it mined, siertri-api the genesis block
SaveMined ==
    \E hash \in DOMAIN block_index :
    \E failure \in SaveFailures :
       SaveBlockchainState(block_index[hash], failure)

\* the node starts again on its database
Restart ==
    /\ halted
    /\ halted' = FALSE
    /\ LET loaded == load_blockchain(db) IN
        /\ blocks' = loaded.blocks
        /\ block_index' = loaded.block_index
        /\ forks' = loaded.forks
        /\ state' = loaded.state
        /\ difficulty' = loaded.difficulty
        /\ mempool' = loaded.mempool
    /\ minted' = MintedAfter(blocks, blocks')
    /\ call' = "load_blockchain"
    /\ arg' = None
    /\ result' = "Ok"
    /\ UNCHANGED <<db, peers, security, mining, system_time, allowed, unlisted>>

NextSave == MineForSave \/ SaveMined \/ Restart

SpecSave == Init /\ [][NextSave]_vars

-----------------------------------------------------------------------------
(* SpecSync: a node that mines coinbase blocks and connects to a peer      *)
(* whose chain may be longer or shorter than its own                       *)

MineCoinbaseBlock ==
    /\ Cardinality(DOMAIN block_index) <= MaxTxBlocks
    /\ \E previous_hash \in DOMAIN block_index :
          ApplyBlock(BlockOn(block_index, previous_hash, FreshHash(block_index), <<CB>>))

NextSync == MineCoinbaseBlock \/ Sync

SpecSync == Init /\ [][NextSync]_vars

-----------------------------------------------------------------------------
(* SpecAuth: the challenge and response of peer authentication.  A hex     *)
(* string is modelled as the bytes it encodes, or as NotHex.               *)

AUTH_MAX_AGE == 300

hex_encode(bytes) == [hex |-> bytes]
NotHex == [not_hex |-> TRUE]

\* hex::decode and its error
FromHexError == [from_hex_error |-> TRUE]

hex_decode(text) == IF text = NotHex THEN FromHexError ELSE text.hex

\* u64::saturating_sub
saturating_sub(a, b) == IF a > b THEN a - b ELSE 0

\* PeerIdentity::mark_authenticated
mark_authenticated(identity, t) ==
    [identity EXCEPT !.authenticated = TRUE, !.failed_attempts = 0, !.last_seen = t]

\* SecurityManager::verify_auth_response(peer_id, challenge, response) when
\* current_timestamp() reads t: the manager it leaves and what it returned
verify_auth_response(self, t, peer_id, challenge, response) ==
    IF saturating_sub(t, response.timestamp) > AUTH_MAX_AGE
    THEN [security |-> self, result |-> "AuthenticationError"]
    ELSE LET public_key_bytes == hex_decode(response.public_key)
             signature == hex_decode(response.signature)
         IN  IF public_key_bytes = FromHexError \/ signature = FromHexError
             THEN [security |-> self, result |-> "AuthenticationError"]
             ELSE IF verify_signature(public_key_bytes, challenge.nonce, signature)
                        = "CryptoError"
             THEN [security |-> self, result |-> "CryptoError"]
             ELSE LET peer_entry ==
                          IF peer_id \in DOMAIN self.peers THEN self.peers[peer_id]
                          ELSE [address |-> peer_id, public_key |-> public_key_bytes,
                                authenticated |-> FALSE, failed_attempts |-> 0,
                                last_seen |-> t]
                  IN  [security |-> [self EXCEPT !.peers =
                                        Insert(@, peer_id, mark_authenticated(peer_entry, t))],
                       result |-> "Ok"]

\* the nonces of the challenges, the keys of the peers
Nonces == {"n1", "n2"}
PeerKeys == {Key("P"), Key("Q")}

\* what a peer may answer a challenge with
AuthResponses(t) ==
    [signature : {hex_encode(Sign(k, n)) : k \in PeerKeys, n \in Nonces}
                   \cup {hex_encode(Malformed), NotHex},
     public_key : {hex_encode(k) : k \in PeerKeys} \cup {hex_encode(Malformed), NotHex},
     timestamp : {Clock, t},
     version : {"1.0"}]

VerifyAuthResponse(peer_id, challenge, response) ==
    /\ LET e == verify_auth_response(security, system_time, peer_id, challenge, response) IN
        /\ security' = e.security
        /\ result' = e.result
    /\ call' = "verify_auth_response"
    /\ arg' = [peer_id |-> peer_id, challenge |-> challenge, response |-> response]
    /\ UNCHANGED <<blocks, block_index, forks, state, difficulty, mempool, db, peers,
                   mining, system_time, allowed, minted, unlisted, halted>>

Authenticate ==
    \E peer_id \in {"10.0.0.1:8333"} :
    \E nonce \in Nonces :
    \E response \in AuthResponses(system_time) :
       VerifyAuthResponse(peer_id,
                          [nonce |-> nonce, public_key |-> hex_encode(Key("node")),
                           timestamp |-> Clock],
                          response)

\* the clock advances by AUTH_MAX_AGE seconds, and from there second by
\* second
Tick ==
    /\ \E seconds \in {1, AUTH_MAX_AGE} :
          /\ seconds = 1 => system_time >= Clock + AUTH_MAX_AGE
          /\ system_time + seconds <= Clock + AUTH_MAX_AGE + MaxTicks
          /\ system_time' = system_time + seconds
    /\ UNCHANGED <<blocks, block_index, forks, state, difficulty, mempool, db, peers,
                   security, mining, allowed, minted, unlisted, call, arg, result, halted>>

NextAuth == Authenticate \/ Tick

SpecAuth == Init /\ [][NextAuth]_vars

-----------------------------------------------------------------------------
(* SpecRate: the requests of one entity id, of the three kinds, through the *)
(* rate limiter.  The f64 token counts are whole numbers throughout.       *)

PEER_REQUESTS_PER_SEC == 100
API_REQUESTS_PER_SEC == 50
TRANSACTIONS_PER_SEC == 10

\* RateLimitConfig::default
RateOf(kind) ==
    CASE kind = "peer" -> PEER_REQUESTS_PER_SEC
      [] kind = "api" -> API_REQUESTS_PER_SEC
      [] kind = "transaction" -> TRANSACTIONS_PER_SEC

\* TokenBucket::new(rate) when current_timestamp() reads t
TokenBucket_new(rate, t) == [tokens |-> rate, last_refill |-> t, rate |-> rate]

\* TokenBucket::try_consume when current_timestamp() reads t: the bucket it
\* leaves and what it returned
try_consume(self, t) ==
    LET elapsed == saturating_sub(t, self.last_refill)
        refilled == self.tokens + elapsed * self.rate
        capped == IF refilled > self.rate THEN self.rate ELSE refilled
    IN  IF capped >= 1
        THEN [bucket |-> [self EXCEPT !.tokens = capped - 1, !.last_refill = t],
              consumed |-> TRUE]
        ELSE [bucket |-> [self EXCEPT !.tokens = capped, !.last_refill = t],
              consumed |-> FALSE]

\* RequestRateLimiter::check_rate_limit(entity_id, rate, error_msg) on the
\* limiters of the manager
check_rate_limit(limiters, t, entity_id, rate) ==
    LET bucket == IF entity_id \in DOMAIN limiters THEN limiters[entity_id]
                  ELSE TokenBucket_new(rate, t)
        e == try_consume(bucket, t)
    IN  [limiters |-> Insert(limiters, entity_id, e.bucket),
         result |-> IF e.consumed THEN "Ok" ELSE "NetworkError"]

\* check_peer_rate_limit, check_api_rate_limit and
\* check_transaction_rate_limit of an entity id
CheckRateLimit(kind, entity_id) ==
    /\ LET e == check_rate_limit(security.limiters, system_time, entity_id, RateOf(kind)) IN
        /\ security' = [security EXCEPT !.limiters = e.limiters]
        /\ result' = e.result
        /\ allowed' = IF e.result = "Ok" THEN [allowed EXCEPT ![kind] = @ + 1] ELSE allowed
    /\ call' = "check_rate_limit"
    /\ arg' = [kind |-> kind, entity_id |-> entity_id]
    /\ UNCHANGED <<blocks, block_index, forks, state, difficulty, mempool, db, peers,
                   mining, system_time, minted, unlisted, halted>>

\* requests of the three kinds made under one entity id
Request ==
    /\ allowed["peer"] + allowed["api"] + allowed["transaction"] < MaxRequests
    /\ \E kind \in RequestKinds : CheckRateLimit(kind, "10.0.0.1")

\* the clock reads the next second
NextSecond ==
    /\ system_time < Clock + MaxTicks
    /\ system_time' = system_time + 1
    /\ allowed' = [kind \in RequestKinds |-> 0]
    /\ UNCHANGED <<blocks, block_index, forks, state, difficulty, mempool, db, peers,
                   security, mining, minted, unlisted, call, arg, result, halted>>

NextRate == Request \/ NextSecond

SpecRate == Init /\ [][NextRate]_vars

-----------------------------------------------------------------------------
(* SpecMining: the API server's start_mining and stop_mining and the tasks *)
(* they spawn and await.  A task is at "check" before the test of the flag  *)
(* at the top of its loop, at "mining" inside miner::mine_block, at "mined" *)
(* once mine_block returned a block, and "done" after it left the loop.     *)
(* mine_block returns an error only when the u64 nonce overflows, which the *)
(* model leaves out.                                                        *)

STOP_TIMEOUT_SECS == 5
API_REWARD_AREA == 100

\* start_mining with the wallet file it reads
StartMining(wallet_found) ==
    /\ Len(mining.tasks) < MaxTasks
    /\ call' = "start_mining"
    /\ arg' = [wallet_found |-> wallet_found]
    /\ IF mining.is_mining \/ ~wallet_found
       THEN /\ result' = "BAD_REQUEST"
            /\ UNCHANGED mining
       ELSE /\ result' = "Ok"
            /\ mining' = [mining EXCEPT
                            !.is_mining = TRUE,
                            !.tasks = Append(@, [at |-> "check", block |-> None,
                                                 stopped |-> FALSE]),
                            !.mining_task = {Len(mining.tasks) + 1}]
    /\ UNCHANGED <<blocks, block_index, forks, state, difficulty, mempool, db, peers,
                   security, system_time, allowed, minted, unlisted, halted>>

\* the top of the task's loop: the test of the flag, and Block::new on the
\* tip with the coinbase and the transactions of the mempool
TaskCheck(i) ==
    /\ mining.tasks[i].at = "check"
    /\ IF ~mining.is_mining
       THEN mining' = [mining EXCEPT !.tasks[i].at = "done"]
       ELSE \E transactions \in get_all_transactions(mempool) :
            LET all_txs == <<CoinbaseTx(API_REWARD_AREA, "miner")>> \o transactions
                block == Block(BlockHeader(Len(blocks), Last(blocks).hash, system_time,
                                           difficulty, 0, calculate_merkle_root(all_txs)),
                               0, all_txs)
            IN  mining' = [mining EXCEPT !.tasks[i].at = "mining", !.tasks[i].block = block]
    /\ UNCHANGED <<blocks, block_index, forks, state, difficulty, mempool, db, peers,
                   security, system_time, allowed, minted, unlisted, call, arg, result,
                   halted>>

\* miner::mine_block finds a nonce
TaskMined(i) ==
    /\ mining.tasks[i].at = "mining"
    /\ mining' = [mining EXCEPT !.tasks[i].at = "mined",
                                !.tasks[i].block.hash = FreshHash(block_index)]
    /\ UNCHANGED <<blocks, block_index, forks, state, difficulty, mempool, db, peers,
                   security, system_time, allowed, minted, unlisted, call, arg, result,
                   halted>>

\* the task applies the block it mined and saves it
TaskApply(i) ==
    /\ mining.tasks[i].at = "mined"
    /\ Cardinality(DOMAIN block_index) <= MaxTxBlocks
    /\ LET mined_block == mining.tasks[i].block
           e == apply_block(Self, system_time, mined_block)
       IN  /\ blocks' = e.chain.blocks
           /\ block_index' = e.chain.block_index
           /\ forks' = e.chain.forks
           /\ state' = e.chain.state
           /\ difficulty' = e.chain.difficulty
           /\ mempool' = e.chain.mempool
           /\ result' = e.result
           /\ halted' = e.hang
           /\ arg' = [task |-> i, block |-> mined_block]
           /\ IF e.result = "Ok"
              THEN /\ db' = [db EXCEPT !.blocks = Insert(@, mined_block.header.height,
                                                         mined_block),
                                       !.utxo_set = e.chain.state]
                   /\ mining' = [mining EXCEPT !.tasks[i].at = "check",
                                               !.tasks[i].block = None,
                                               !.blocks_mined = @ + 1]
              ELSE /\ db' = db
                   /\ mining' = [mining EXCEPT !.tasks[i].at = "check",
                                               !.tasks[i].block = None]
    /\ minted' = MintedAfter(blocks, blocks')
    /\ call' = "task apply_block"
    /\ UNCHANGED <<peers, security, system_time, allowed, unlisted>>

\* stop_mining up to its wait for the task: the flag is cleared and the
\* handle taken
StopMining ==
    /\ call' = "stop_mining"
    /\ arg' = None
    /\ IF ~mining.is_mining
       THEN /\ result' = "BAD_REQUEST"
            /\ UNCHANGED mining
       ELSE /\ result' = "waiting"
            /\ mining' = [mining EXCEPT
                            !.is_mining = FALSE,
                            !.mining_task = {},
                            !.stops = @ \cup {[handle |-> mining.mining_task,
                                               deadline |-> system_time + STOP_TIMEOUT_SECS]}]
    /\ UNCHANGED <<blocks, block_index, forks, state, difficulty, mempool, db, peers,
                   security, system_time, allowed, minted, unlisted, halted>>

\* stop_mining returns: the task it awaits finished, or the timeout expired
StopMiningReturns(stop) ==
    /\ stop \in mining.stops
    /\ \/ \A i \in stop.handle : mining.tasks[i].at = "done"
       \/ system_time >= stop.deadline
    /\ mining' = [mining EXCEPT
                    !.stops = @ \ {stop},
                    !.tasks = [i \in DOMAIN @ |->
                                 IF i \in stop.handle THEN [@[i] EXCEPT !.stopped = TRUE]
                                 ELSE @[i]]]
    /\ call' = "stop_mining"
    /\ arg' = None
    /\ result' = "Ok"
    /\ UNCHANGED <<blocks, block_index, forks, state, difficulty, mempool, db, peers,
                   security, system_time, allowed, minted, unlisted, halted>>

\* STOP_TIMEOUT_SECS pass
TimeoutPasses ==
    /\ system_time < Clock + STOP_TIMEOUT_SECS * MaxTicks
    /\ system_time' = system_time + STOP_TIMEOUT_SECS
    /\ UNCHANGED <<blocks, block_index, forks, state, difficulty, mempool, db, peers,
                   security, mining, allowed, minted, unlisted, call, arg, result, halted>>

StartMiningCalled == \E wallet_found \in BOOLEAN : StartMining(wallet_found)

TaskStep ==
    \E i \in DOMAIN mining.tasks : TaskCheck(i) \/ TaskMined(i) \/ TaskApply(i)

StopMiningCalled == StopMining \/ \E stop \in mining.stops : StopMiningReturns(stop)

NextMining == StartMiningCalled \/ TaskStep \/ StopMiningCalled \/ TimeoutPasses

SpecMining == Init /\ [][NextMining]_vars

-----------------------------------------------------------------------------
(* SpecReward: calculate_block_reward at the first, second and last height *)
(* of every halving period up to the one past MAX_HALVINGS                 *)

RewardHeights ==
    { period * REWARD_HALVING_INTERVAL + offset :
         period \in 0..(MAX_HALVINGS + 1), offset \in {0, 1, REWARD_HALVING_INTERVAL - 1} }

CalculateBlockReward(height) ==
    /\ call' = "calculate_block_reward"
    /\ arg' = [height |-> height]
    /\ result' = calculate_block_reward(height)
    /\ UNCHANGED <<blocks, block_index, forks, state, difficulty, mempool, db, peers,
                   security, mining, system_time, allowed, minted, unlisted, halted>>

NextReward == \E height \in RewardHeights : CalculateBlockReward(height)

SpecReward == Init /\ [][NextReward]_vars

-----------------------------------------------------------------------------
(* SpecMerkle: calculate_merkle_root of a transaction list and of the same *)
(* list with one transaction mutated                                       *)

\* Option::Some
Some(value) == [some |-> value]

\* the transactions that differ from tx in one field, and the transfers
\* whose new_owner lost its last character to the sender
Mutations(tx) ==
    CASE tx.kind = "Coinbase" ->
            { [tx EXCEPT !.reward_area = @ + 1],
              [tx EXCEPT !.beneficiary_address = "B"] }
      [] tx.kind = "Transfer" ->
            { [tx EXCEPT !.input_hash = G0],
              [tx EXCEPT !.new_owner = "C"],
              [tx EXCEPT !.sender = "C"],
              [tx EXCEPT !.fee = @ + 1],
              [tx EXCEPT !.nonce = @ + 1],
              [tx EXCEPT !.signature = Sign(Key("B"), signable_message(tx))],
              [tx EXCEPT !.public_key = Key("B")],
              [tx EXCEPT !.memo = Some("paid")],
              [tx EXCEPT !.new_owner = "", !.sender = tx.new_owner \o tx.sender] }
      [] tx.kind = "Subdivision" ->
            { [tx EXCEPT !.parent_hash = G0],
              [tx EXCEPT !.children = Displaced(@, 2)],
              [tx EXCEPT !.children[1].owner = "B"],
              [tx EXCEPT !.owner_address = "B"],
              [tx EXCEPT !.fee = @ + 1],
              [tx EXCEPT !.nonce = @ + 1],
              [tx EXCEPT !.signature = Sign(Key("B"), signable_message(tx))],
              [tx EXCEPT !.public_key = Key("B")] }

\* the lists of up to MaxListed transactions
ListedTxs == {CB, Xfer1, Sub1}
TxLists == UNION {[1..n -> ListedTxs] : n \in 0..MaxListed}

CalculateMerkleRoot(transactions, mutated) ==
    /\ call' = "calculate_merkle_root"
    /\ arg' = [transactions |-> transactions, mutated |-> mutated]
    /\ result' = [root |-> calculate_merkle_root(transactions),
                  mutated_root |-> calculate_merkle_root(mutated)]
    /\ UNCHANGED <<blocks, block_index, forks, state, difficulty, mempool, db, peers,
                   security, mining, system_time, allowed, minted, unlisted, halted>>

NextMerkle ==
    \E transactions \in TxLists :
       \/ CalculateMerkleRoot(transactions, transactions)
       \/ \E i \in 1..Len(transactions) :
          \E tx \in Mutations(transactions[i]) :
             CalculateMerkleRoot(transactions, [transactions EXCEPT ![i] = tx])

SpecMerkle == Init /\ [][NextMerkle]_vars

-----------------------------------------------------------------------------
(* SpecSign: a transaction is signed, then validated as signed and with *)
(* one of its signed fields changed                                     *)

SignerKeys == {Key("A"), Key("B"), Key("C")}
UnsignedTxs ==
    { SubdivisionTx(G, GChildren, "A", 0, 1, None, None),
      SubdivisionTx(G0, subdivide(GChildren[1]), "A", 1, 2, None, None),
      TransferTx(G, "B", "A", 1, 1, None, None),
      SubdivisionTx(G, Displaced(GChildren, 1), "B", 0, 1, None, None),
      TransferTx(G0, "A", "B", 0, 2, None, None),
      TransferTx(G, "A", "C", 2, 3, None, None) }

\* the mutations of a signed transaction that keep its signature and key
FieldMutations(tx) ==
    { mutated \in Mutations(tx) :
         mutated.signature = tx.signature /\ mutated.public_key = tx.public_key }

\* tx.sign(keypair.sign(tx.signable_message()), public_key), then
\* validate_signature on the transaction and on the mutated one
SignThenValidate(tx, mutated) ==
    /\ call' = "validate_signature"
    /\ arg' = [tx |-> tx, mutated |-> mutated]
    /\ result' = [signed |-> validate_signature(tx),
                  mutated |-> validate_signature(mutated)]
    /\ UNCHANGED <<blocks, block_index, forks, state, difficulty, mempool, db, peers,
                   security, mining, system_time, allowed, minted, unlisted, halted>>

NextSign ==
    \E unsigned \in UnsignedTxs, key \in SignerKeys :
       LET tx == Signed(unsigned, key) IN
       \/ SignThenValidate(tx, tx)
       \/ \E mutated \in FieldMutations(tx) : SignThenValidate(tx, mutated)

SpecSign == Init /\ [][NextSign]_vars

-----------------------------------------------------------------------------
(* SpecApply: the three state updates of apply_block applied to the UTXO *)
(* set one transaction at a time, any of them any number of times        *)

\* the subdivision of the genesis triangle into itself, owned by "B", and
\* two of its children
SubSelf ==
    SubdivisionTx(G, <<[genesis_triangle EXCEPT !.owner = "B"], GChildren[2], GChildren[3]>>,
                  "B", 0, 5, None, None)

AppliedSubdivisions == {Sub1, SubChild, SubSeized, SubSelf}
AppliedCoinbases == {CB, CBSmall, CBZero}
AppliedTransfers == {Xfer1, Xfer2, Signed(TransferTx(G0, "C", "A", 0, 3, None, None), Key("A"))}

\* the outcome of one state update on Blockchain.state
Applied(name, input, outcome) ==
    /\ state' = outcome.st
    /\ call' = name
    /\ arg' = input
    /\ result' = outcome.err
    /\ UNCHANGED <<blocks, block_index, forks, difficulty, mempool, db, peers,
                   security, mining, system_time, allowed, minted, unlisted, halted>>

\* state.apply_subdivision(tx)
ApplySubdivision ==
    \E tx \in AppliedSubdivisions :
       Applied("apply_subdivision", [tx |-> tx], apply_subdivision(state, tx))

\* state.apply_coinbase(tx, block_height)
ApplyCoinbase ==
    \E tx \in AppliedCoinbases, block_height \in 1..MaxTxBlocks :
       Applied("apply_coinbase", [tx |-> tx, block_height |-> block_height],
               apply_coinbase(state, tx, block_height))

\* the Transfer arm: the owner of state.utxo_set[tx.input_hash] is set
ApplyTransfer ==
    \E tx \in AppliedTransfers :
       Applied("apply_transfer", [tx |-> tx], apply_transfer(state, tx))

NextApply == ApplySubdivision \/ ApplyCoinbase \/ ApplyTransfer

SpecApply == Init /\ [][NextApply]_vars

-----------------------------------------------------------------------------
(* SpecMine: the chains of SpecRetarget, and mine_block on a candidate *)
(* block built on the tip at the difficulty of the chain               *)

\* Block::new(height, previous_hash, difficulty, transactions) on the tip,
\* as start_mining builds it, then miner::mine_block
MineCandidate ==
    /\ LET last_block == Last(blocks)
           candidate == Block(BlockHeader(last_block.header.height + 1, last_block.hash,
                                          last_block.header.timestamp + 1, difficulty, 0,
                                          calculate_merkle_root(<<CB>>)),
                              0, <<CB>>)
       IN  /\ arg' = candidate
           /\ result' = mine_block(candidate)
    /\ call' = "mine_block"
    /\ UNCHANGED <<blocks, block_index, forks, state, difficulty, mempool, db, peers,
                   security, mining, system_time, allowed, minted, unlisted, halted>>

NextMine == MineOnTip \/ MineCandidate

SpecMine == InitRetarget /\ [][NextMine]_vars

-----------------------------------------------------------------------------
(* SpecHash: blocks that mine_block mined, submitted as mined and with a *)
(* header field changed after the mining                                 *)

\* the block mine_block returns for the coinbase block on previous_hash
MinedOn(previous_hash) ==
    mine_block(BlockOn(block_index, previous_hash, 0, <<CB>>)).block

\* the mined block with its timestamp, its nonce, its difficulty or its
\* height changed and its hash field as mined
Altered(block) ==
    { [block EXCEPT !.header.timestamp = @ + 1],
      [block EXCEPT !.header.nonce = @ + 1],
      [block EXCEPT !.header.difficulty = @ - 1],
      [block EXCEPT !.header.height = @ + 1] }

SubmitMinedBlock ==
    /\ Cardinality(DOMAIN block_index) <= MaxTxBlocks
    /\ \E previous_hash \in DOMAIN block_index : ApplyBlock(MinedOn(previous_hash))

SubmitAlteredBlock ==
    /\ Cardinality(DOMAIN block_index) <= MaxTxBlocks
    /\ \E previous_hash \in DOMAIN block_index :
       \E block \in Altered(MinedOn(previous_hash)) : ApplyBlock(block)

NextHash == SubmitMinedBlock \/ SubmitAlteredBlock

SpecHash == Init /\ [][NextHash]_vars

-----------------------------------------------------------------------------
(* Claims *)

\* the call that just returned was apply_block and it returned an error
ApplyBlockFailed == call' = "apply_block" /\ result' \notin {"Ok", "Hang"}

\* C1: whenever apply_block returns an error, the active block list, the
\* block index, the fork map, the UTXO set, the difficulty and the mempool
\* are what they were before the call.
C1_ErrorLeavesChainUnchanged ==
    [][ApplyBlockFailed => UNCHANGED chainVars]_vars

\* the parents of the subdivisions of a sequence of blocks, in chain order
RECURSIVE ConsumedParents(_, _)
ConsumedParents(chain, i) ==
    IF i > Len(chain) THEN <<>>
    ELSE LET txs == chain[i].transactions
             subs == SelectSeq(txs, LAMBDA tx : tx.kind = "Subdivision")
         IN  [k \in 1..Len(subs) |-> subs[k].parent_hash] \o ConsumedParents(chain, i + 1)

NoParentConsumedTwice(chain) ==
    LET parents == ConsumedParents(chain, 1) IN
    \A i, j \in 1..Len(parents) : parents[i] = parents[j] => i = j

\* the block subdivides a triangle of the UTXO set twice and nothing else
\* is wrong with it
SubdividesTwice(utxo, block) ==
    LET txs == block.transactions IN
    /\ \E i, j \in 1..Len(txs) :
          /\ i < j
          /\ txs[i].kind = "Subdivision" /\ txs[j].kind = "Subdivision"
          /\ txs[i].parent_hash = txs[j].parent_hash
          /\ txs[i].parent_hash \in DOMAIN utxo
    /\ \A i \in 1..Len(txs) : ValidateTx(utxo, txs[i]) = "Ok"

\* C2: a triangle id is consumed at most once: apply_block of a block that
\* extends the tip with two subdivisions of the same parent returns
\* InvalidTransaction, and the subdivisions of the active chain never
\* consume the same parent twice.
C2_ConsumedAtMostOnce ==
    [][/\ (/\ call' = "apply_block"
           /\ arg'.header.previous_hash = Last(blocks).hash
           /\ SubdividesTwice(state, arg'))
            => result' = "InvalidTransaction"
       /\ NoParentConsumedTwice(blocks')]_vars

\* apply_block accepted a block on a known block that was not the tip
AcceptedOffTip ==
    /\ call' = "apply_block"
    /\ result' = "Ok"
    /\ arg'.header.previous_hash \in DOMAIN block_index
    /\ arg'.header.previous_hash # Last(blocks).hash

\* C3: when apply_block accepts a block on a known non-tip block and the
\* chain from genesis to that block has strictly more blocks than the
\* active chain, the active chain becomes that branch: its tip is the new
\* block and its length the length of the branch.
C3_LongestBranchAdopted ==
    [][(AcceptedOffTip /\ arg'.header.height + 1 > Len(blocks))
          => (Last(blocks') = arg' /\ Len(blocks') = arg'.header.height + 1)]_vars

RECURSIVE ReplayFromGenesis(_, _, _)
ReplayFromGenesis(chain, i, utxo) ==
    IF i > Len(chain) THEN utxo
    ELSE ReplayFromGenesis(chain, i + 1,
            apply_transactions(utxo, chain[i].transactions, chain[i].header.height, 1).st)

\* C5: after apply_block adopts a longer fork, the UTXO set is the one the
\* adopted chain's transactions produce from the genesis triangle.
C5_ReorgReplaysAdoptedChain ==
    [][(AcceptedOffTip /\ blocks' # blocks)
          => state' = ReplayFromGenesis(blocks', 1, GenesisUtxo)]_vars

\* apply_block has just adopted a fork, the block that was the tip lost its
\* place, and the genesis triangle it subdivided is unspent again
C5_Witness ==
    /\ call = "apply_block"
    /\ result = "Ok"
    /\ Last(blocks) = arg
    /\ arg.hash \in DOMAIN forks
    /\ G \in DOMAIN state
    /\ \E h \in DOMAIN block_index \ DOMAIN forks :
          /\ \A i \in 1..Len(blocks) : blocks[i] # block_index[h]
          /\ \E i \in 1..Len(block_index[h].transactions) :
                block_index[h].transactions[i] = Sub1

\* the ids of the transactions of a block
TxHashes(block) == {TxHash(block.transactions[i]) : i \in 1..Len(block.transactions)}

\* C6: after a successful apply_block that changes the active chain, the
\* mempool holds no transaction of the applied block and only transactions
\* that are valid against the resulting UTXO set.
C6_MempoolCleanAfterBlock ==
    [][(call' = "apply_block" /\ result' = "Ok" /\ blocks' # blocks)
          => \A h \in DOMAIN mempool' :
                /\ h \notin TxHashes(arg')
                /\ StillValid(state', mempool'[h])]_vars

\* what validate_block checks of a block besides its parent
OtherwiseValid(utxo, now, block) ==
    /\ block.header.timestamp <= now + MAX_FUTURE_TIMESTAMP_DRIFT
    /\ verify_proof_of_work(block)
    /\ block.header.merkle_root = calculate_merkle_root(block.transactions)
    /\ CoinbaseRules(block) = "Ok"
    /\ RewardRule(block) = "Ok"
    /\ ValidateTxs(utxo, block.transactions, 1) = "Ok"

\* C8: apply_block of an otherwise valid block whose previous_hash is not
\* in the block index returns OrphanBlock and leaves the chain unchanged.
C8_UnknownParentIsOrphan ==
    [][(/\ call' = "apply_block"
        /\ arg'.header.previous_hash \notin DOMAIN block_index
        /\ OtherwiseValid(state, Clock, arg'))
          => (result' = "OrphanBlock" /\ UNCHANGED chainVars)]_vars

\* C9: every block of height > 0 on the active chain has exactly one
\* coinbase, and it is the first transaction.
C9_OneCoinbaseFirst ==
    \A i \in 1..Len(blocks) :
       blocks[i].header.height > 0 =>
          LET txs == blocks[i].transactions IN
          /\ txs # <<>>
          /\ txs[1].kind = "Coinbase"
          /\ \A k \in 2..Len(txs) : txs[k].kind # "Coinbase"

\* apply_block extended the tip with the block
ExtendedTip ==
    /\ call' = "apply_block"
    /\ result' = "Ok"
    /\ arg'.header.previous_hash = Last(blocks).hash

\* the id of the triangle a coinbase mints at a height
MintedId(tx, height) ==
    TriangleHash(Triangle(<<height * 1000, tx.reward_area>>, 0, None, tx.beneficiary_address))

ChildIds(tx) == {TriangleHash(tx.children[k]) : k \in 1..Len(tx.children)}

\* the triangle ids a transaction of a block at a height names
NamedIds(tx, height) ==
    CASE tx.kind = "Subdivision" -> {tx.parent_hash} \cup ChildIds(tx)
      [] tx.kind = "Transfer" -> {tx.input_hash}
      [] tx.kind = "Coinbase" -> {MintedId(tx, height)}

\* what the claim says of transaction i of the block, once it is applied
TxEffect(block, i, utxo) ==
    LET tx == block.transactions[i] IN
    CASE tx.kind = "Subdivision" ->
            /\ tx.parent_hash \notin DOMAIN utxo
            /\ ChildIds(tx) \subseteq DOMAIN utxo
      [] tx.kind = "Transfer" ->
            /\ tx.input_hash \in DOMAIN utxo
            /\ utxo[tx.input_hash].owner = tx.new_owner
      [] tx.kind = "Coinbase" ->
            /\ MintedId(tx, block.header.height) \in DOMAIN utxo
            /\ utxo[MintedId(tx, block.header.height)].owner = tx.beneficiary_address

\* no transaction after transaction i of the block names an id that
\* transaction i names, and no subdivision has its parent among its children
NamedLast(block, i) ==
    LET tx == block.transactions[i]
        height == block.header.height
    IN  /\ \A j \in (i + 1)..Len(block.transactions) :
              NamedIds(block.transactions[j], height) \cap NamedIds(tx, height) = {}
        /\ tx.kind = "Subdivision" => tx.parent_hash \notin ChildIds(tx)

\* C7 as stated: after a successful apply_block(b) extending the tip, every
\* subdivision of b has its parent absent and its children present, every
\* transfer of b has its input present and owned by its new_owner, and the
\* coinbase's triangle is present and owned by the beneficiary.
C7_EveryTransactionShows ==
    [][ExtendedTip =>
          \A i \in 1..Len(arg'.transactions) : TxEffect(arg', i, state')]_vars

\* C7, amended: the same of every transaction of b whose triangle ids no
\* later transaction of b names.
C7_LastNamedTransactionShows ==
    [][ExtendedTip =>
          \A i \in 1..Len(arg'.transactions) :
             NamedLast(arg', i) => TxEffect(arg', i, state')]_vars

\* apply_block has just extended the tip with a coinbase and two transfers
\* of the genesis triangle, to B and back to A: the triangle is A's
C7_Witness ==
    /\ call = "apply_block"
    /\ result = "Ok"
    /\ Last(blocks) = arg
    /\ arg.transactions = <<CB, Xfer1, Xfer2>>
    /\ state[G].owner = "A"
    /\ MintedId(CB, arg.header.height) \in DOMAIN state

\* the checks of validate_block that come before the coinbase rules
HeaderChecksPass(index, now, block) ==
    /\ block.header.previous_hash \in DOMAIN index
    /\ block.header.height = index[block.header.previous_hash].header.height + 1
    /\ block.header.timestamp > index[block.header.previous_hash].header.timestamp
    /\ block.header.timestamp <= now + MAX_FUTURE_TIMESTAMP_DRIFT
    /\ verify_proof_of_work(block)
    /\ block.header.merkle_root = calculate_merkle_root(block.transactions)

\* calculate_block_reward(h) plus the fees of the block, saturating
MaxReward(block) ==
    saturating_add(calculate_block_reward(block.header.height),
                   calculate_total_fees(block.transactions))

\* the reward areas the coinbases of the block claim
RewardAreas(block) ==
    {block.transactions[i].reward_area :
        i \in {k \in 1..Len(block.transactions) : block.transactions[k].kind = "Coinbase"}}

ValidatedAboveGenesis == call = "validate_block" /\ arg.header.height > 0

\* C10 as stated: a block of height > 0 that validate_block accepts claims
\* at most the block reward of its height plus its fees, and a block that
\* claims more is rejected with InvalidTransaction.
C10_RewardBoundOrInvalidTransaction ==
    ValidatedAboveGenesis =>
       /\ result = "Ok" => \A r \in RewardAreas(arg) : r <= MaxReward(arg)
       /\ (\E r \in RewardAreas(arg) : r > MaxReward(arg)) => result = "InvalidTransaction"

\* C10, amended: a block of height > 0 that validate_block accepts claims
\* at most the block reward of its height plus its fees, and a block that
\* claims more is rejected, with InvalidTransaction when it passes the
\* checks of its parent, timestamp, proof of work and merkle root.
C10_RewardBound ==
    ValidatedAboveGenesis =>
       /\ result = "Ok" => \A r \in RewardAreas(arg) : r <= MaxReward(arg)
       /\ (\E r \in RewardAreas(arg) : r > MaxReward(arg)) =>
             /\ result # "Ok"
             /\ HeaderChecksPass(block_index, Clock, arg) => result = "InvalidTransaction"

\* validate_block has just accepted, one block after the first halving, a
\* coinbase that claims the halved reward and the fee of the block's
\* transfer
C10_Witness ==
    /\ call = "validate_block"
    /\ result = "Ok"
    /\ arg.header.height = REWARD_HALVING_INTERVAL
    /\ arg.transactions = <<CoinbaseTx(501, "A"), Xfer1>>
    /\ MaxReward(arg) = 501

\* C11: the reward areas of the coinbases of the active chain sum to at
\* most MAX_SUPPLY, whatever blocks apply_block accepted.
C11_SupplyCapped == minted <= MAX_SUPPLY

\* the timestamps of a chain increase strictly from block to block
TimestampsIncrease(chain) ==
    \A i \in 1..(Len(chain) - 1) :
        chain[i].header.timestamp < chain[i + 1].header.timestamp

\* C12: apply_block rejects a block whose timestamp is not greater than its
\* parent's or is more than MAX_FUTURE_TIMESTAMP_DRIFT after the clock, and
\* the timestamps of the active chain increase strictly after every call,
\* reorganizations included.
C12_TimestampsIncrease ==
    /\ (/\ call = "apply_block"
        /\ \/ arg.header.timestamp > Clock + MAX_FUTURE_TIMESTAMP_DRIFT
           \/ /\ arg.header.previous_hash \in DOMAIN block_index
              /\ arg.header.timestamp
                    <= block_index[arg.header.previous_hash].header.timestamp)
       => result # "Ok"
    /\ TimestampsIncrease(blocks)

\* the 64 characters of hex::encode(hash), as digits
RECURSIVE HexEncode(_, _)
HexEncode(hash, n) ==
    IF n = 0 THEN <<>> ELSE Append(HexEncode(hash \div 16, n - 1), hash % 16)

\* how many '0' characters the encoded hash starts with
LeadingZeroChars(hash) ==
    LET hex == HexEncode(hash, 64) IN
    CHOOSE k \in 0..64 :
        /\ \A i \in 1..k : hex[i] = 0
        /\ k = 64 \/ hex[k + 1] # 0

\* the difficulty a block has to meet
RequiredZeros(block) ==
    IF block.header.difficulty > 64 THEN 64 ELSE block.header.difficulty

\* the checks of validate_block that come before the proof of work
LinkageAndTimeChecksPass(index, now, block) ==
    /\ block.header.previous_hash \in DOMAIN index
    /\ block.header.height = index[block.header.previous_hash].header.height + 1
    /\ block.header.timestamp > index[block.header.previous_hash].header.timestamp
    /\ block.header.timestamp <= now + MAX_FUTURE_TIMESTAMP_DRIFT

\* C13 as stated: validate_block fails with InvalidProofOfWork when the hash
\* of the block starts with fewer '0' hex characters than the difficulty of
\* its header, taken as at most 64, and does not fail so when it starts
\* with that many or more.
C13_ProofOfWorkError ==
    call = "validate_block" =>
       IF LeadingZeroChars(arg.hash) < RequiredZeros(arg)
       THEN result = "InvalidProofOfWork"
       ELSE result # "InvalidProofOfWork"

\* C13, amended: such a block is rejected, with InvalidProofOfWork when it
\* passes the checks of its parent, height and timestamp; a block with
\* enough leading zeros is never rejected with InvalidProofOfWork.
C13_ProofOfWork ==
    call = "validate_block" =>
       IF LeadingZeroChars(arg.hash) < RequiredZeros(arg)
       THEN /\ result # "Ok"
            /\ LinkageAndTimeChecksPass(block_index, Clock, arg)
                  => result = "InvalidProofOfWork"
       ELSE result # "InvalidProofOfWork"

\* validate_block has just rejected, for its proof of work, a block of
\* difficulty 64 whose hash starts with 63 zeros, on a parent it knows
C13_Witness ==
    /\ call = "validate_block"
    /\ result = "InvalidProofOfWork"
    /\ arg.header.difficulty = MAX_DIFFICULTY
    /\ LeadingZeroChars(arg.hash) = MAX_DIFFICULTY - 1

\* C14: the difficulty of the chain is at least 1 and at most 64 in every
\* reachable state, whatever retargets apply_block made.
C14_DifficultyInRange == difficulty >= 1 /\ difficulty <= MAX_DIFFICULTY

\* the senders of the transactions of a pool
Senders(pool) == {sender_address(pool[h]) : h \in DOMAIN pool}

\* C15: the mempool holds at most MAX_TRANSACTIONS transactions, and at
\* most MAX_PER_ADDRESS of any one sender, after every add_transaction,
\* remove_transaction and validate_and_prune.
C15_MempoolBounded ==
    /\ Cardinality(DOMAIN mempool) + unlisted <= MAX_TRANSACTIONS
    /\ \A sender \in Senders(mempool) :
          Cardinality({h \in DOMAIN mempool : sender_address(mempool[h]) = sender})
             <= MAX_PER_ADDRESS

\* the transaction carries a key and a signature, both parse, and the
\* signature is the key's over the message of the transaction
SignatureVerifies(tx) ==
    /\ tx.signature \notin {None, Malformed}
    /\ tx.public_key \notin {None, Malformed}
    /\ tx.signature = Sign(tx.public_key, signable_message(tx))

\* the transactions C16 says add_transaction refuses
MustBeRefused(pool, tx) ==
    \/ TxHash(tx) \in DOMAIN pool
    \/ tx.kind = "Coinbase"
    \/ tx.kind \in {"Subdivision", "Transfer"} /\ ~SignatureVerifies(tx)

\* C16: add_transaction returns an error for a transaction the mempool
\* holds, for a coinbase, and for a subdivision or transfer that is unsigned
\* or whose signature does not verify; a call that returns an error leaves
\* the mempool as it was; and no transaction of the mempool is a coinbase.
C16_AdmissionRefuses ==
    /\ [](\A h \in DOMAIN mempool : mempool[h].kind # "Coinbase")
    /\ [][call' = "add_transaction" =>
            /\ MustBeRefused(mempool, arg') => result' # "Ok"
            /\ result' # "Ok" => mempool' = mempool /\ unlisted' = unlisted]_vars

\* add_transaction has just refused a coinbase at a mempool of
\* MAX_TRANSACTIONS transactions
C16_Witness ==
    /\ call = "add_transaction"
    /\ arg.kind = "Coinbase"
    /\ result = "InvalidTransaction"
    /\ Cardinality(DOMAIN mempool) + unlisted = MAX_TRANSACTIONS

\* the fees of a sequence of transactions
Fees(txs) == [i \in 1..Len(txs) |-> fee(txs[i])]

\* C17: get_transactions_by_fee(k) returns min(k, size of the mempool)
\* transactions of the mempool, each once, in non-increasing order of fee,
\* and none it leaves out has a higher fee than one it returns.
C17_SelectedByFee ==
    call = "get_transactions_by_fee" =>
       /\ Len(result) = Min(arg.limit, Cardinality(DOMAIN mempool))
       /\ \A i \in 1..Len(result) :
             /\ TxHash(result[i]) \in DOMAIN mempool
             /\ mempool[TxHash(result[i])] = result[i]
       /\ \A i, j \in 1..Len(result) :
             /\ i # j => result[i] # result[j]
             /\ i < j => fee(result[i]) >= fee(result[j])
       /\ \A h \in DOMAIN mempool \ {TxHash(result[i]) : i \in 1..Len(result)} :
             \A i \in 1..Len(result) : fee(result[i]) >= fee(mempool[h])

\* the mempool of test_mempool_fee_prioritization, from which
\* get_transactions_by_fee(3) has just returned the fees 100, 50, 25
C17_Witness ==
    /\ call = "get_transactions_by_fee"
    /\ arg.limit = 3
    /\ {fee(mempool[h]) : h \in DOMAIN mempool} = {10, 50, 25, 100, 5}
    /\ Cardinality(DOMAIN mempool) = 5
    /\ Fees(result) = <<100, 50, 25>>

\* the UTXO set the i-th transaction of a block on the tip is applied to
StateBefore(block, i) ==
    apply_transactions(state, SubSeq(block.transactions, 1, i - 1), block.header.height, 1).st

\* C18: when apply_block has extended the tip, the children of each
\* subdivision of the block that the UTXO set holds have the owner of the
\* triangle the subdivision consumed, and its id as their parent.
C18_ChildrenInheritFromParent ==
    [][ExtendedTip =>
         \A i \in 1..Len(arg'.transactions) :
            LET tx == arg'.transactions[i]
                parent == StateBefore(arg', i)[tx.parent_hash]
            IN  tx.kind = "Subdivision" =>
                   \A k \in 1..Len(tx.children) :
                      LET id == TriangleHash(tx.children[k]) IN
                      id \in DOMAIN state' =>
                         /\ state'[id].owner = parent.owner
                         /\ state'[id].parent_hash = tx.parent_hash]_vars

\* C19: save_blockchain_state(b, s, d) is all-or-nothing.  When it returns
\* Ok, load_blockchain finds b in the row of b's height, the UTXO set s and
\* the difficulty d; when a step fails or the process stops before the
\* commit, the rows, the UTXO set and the difficulty of the database are
\* those of before the call and a load observes what it observed before.
C19_SaveAllOrNothing ==
    [][call' = "save_blockchain_state" =>
        LET before == load_blockchain(db)
            after == load_blockchain(db')
        IN  IF result' = "Ok"
            THEN /\ \E i \in 1..Len(after.blocks) :
                       /\ after.blocks[i] = arg'.block
                       /\ \A j \in 1..Len(after.blocks) :
                             after.blocks[j].header.height = arg'.block.header.height => j = i
                 /\ after.state = arg'.state
                 /\ after.difficulty = arg'.difficulty
            ELSE /\ db' = db
                 /\ after = before]_vars

\* a save failed or was cut short on a database that holds an earlier save
\* of another block at the same height
C19_Witness ==
    /\ call = "save_blockchain_state"
    /\ result # "Ok"
    /\ arg.block.header.height \in DOMAIN db.blocks
    /\ db.blocks[arg.block.header.height] # arg.block

\* a received chain with one of the defects that validation looks for: a
\* block without valid proof of work, a block whose merkle_root is not the
\* root of its transactions, a block whose height is not its predecessor's
\* plus one or whose previous_hash is not its predecessor's hash, or a
\* genesis block that is not the local one
FailsValidation(response) ==
    /\ response.blocks # <<>>
    /\ \/ \E i \in 1..Len(response.blocks) : ~verify_proof_of_work(response.blocks[i])
       \/ \E i \in 1..Len(response.blocks) :
             response.blocks[i].header.merkle_root
                # calculate_merkle_root(response.blocks[i].transactions)
       \/ \E i \in 2..Len(response.blocks) :
             response.blocks[i].header.height # response.blocks[i - 1].header.height + 1
       \/ \E i \in 2..Len(response.blocks) :
             response.blocks[i].header.previous_hash # response.blocks[i - 1].hash
       \/ response.blocks[1].hash # blocks[1].hash

\* C20 as stated: whenever the received chain fails validation,
\* connect_peer returns an error and the local chain, the UTXO set and the
\* database are unchanged.
C20_InvalidChainError ==
    [][\A response \in RemoteChains(RemoteLength) : \A failure \in DbFailures :
          (FailsValidation(response) /\ ConnectPeer("peer", response, failure))
             => /\ result' # "Ok"
                /\ UNCHANGED <<blocks, block_index, forks, state, difficulty, db>>]_vars

\* C20, amended: connect_peer never adopts a received chain that fails
\* validation; the local chain, the UTXO set and the database are
\* unchanged, and connect_peer returns an error when the received chain is
\* longer than the local one and Ok, the chain being ignored, when it is
\* not.
C20_InvalidChainNotAdopted ==
    [][\A response \in RemoteChains(RemoteLength) : \A failure \in DbFailures :
          (FailsValidation(response) /\ ConnectPeer("peer", response, failure))
             => /\ UNCHANGED <<blocks, block_index, forks, state, difficulty, db>>
                /\ result' = IF Len(response.blocks) > Len(blocks)
                             THEN "NetworkError" ELSE "Ok"]_vars

\* a node that mined a block was sent a longer chain and refused it
C20_Witness ==
    /\ call = "connect_peer"
    /\ "remote_length" \in DOMAIN arg
    /\ result = "NetworkError"
    /\ Len(blocks) > 1
    /\ arg.remote_length > Len(blocks)

\* C21: when connect_peer adopts a longer received chain, the UTXO set
\* afterwards is the one that the adopted blocks' transactions produce from
\* the genesis triangle, whatever UTXO set the peer's message carried.
C21_AdoptionReplaysChain ==
    [][(call' = "connect_peer" /\ blocks' # blocks)
          => state' = ReplayFromGenesis(blocks', 1, GenesisUtxo)]_vars

\* the response's signature is a signature of the challenge nonce under the
\* response's public key
SignsChallenge(challenge, response) ==
    /\ response.public_key \in {hex_encode(k) : k \in PeerKeys}
    /\ response.signature = hex_encode(Sign(response.public_key.hex, challenge.nonce))

\* C22: verify_auth_response returns Ok and marks the peer authenticated
\* only for a response that signs the challenge nonce under its own public
\* key and is at most 300 s old; for any other response it returns an error
\* and marks no peer.
C22_AuthenticatedOnlyWhenVerified ==
    [][call' = "verify_auth_response" =>
         IF /\ SignsChallenge(arg'.challenge, arg'.response)
            /\ system_time - arg'.response.timestamp <= AUTH_MAX_AGE
         THEN TRUE
         ELSE result' # "Ok" /\ security' = security]_vars

\* C23: each entity's bucket holds between zero and its rate tokens, and
\* while the clock reads the same second at most `rate' requests of a kind
\* succeed for an entity, `rate' being the rate of that kind: 100 peer
\* requests, 50 API requests, 10 transaction submissions.
C23_ThrottledAtRateOfKind ==
    /\ \A entity_id \in DOMAIN security.limiters :
          /\ security.limiters[entity_id].tokens >= 0
          /\ security.limiters[entity_id].tokens <= security.limiters[entity_id].rate
    /\ \A kind \in RequestKinds : allowed[kind] <= RateOf(kind)

\* C24: once stop_mining has returned, after the task finished or after
\* its 5 s wait expired, no block mined by the task it stopped is applied to
\* the chain and saved.
C24_StoppedTaskAppliesNothing ==
    [][~(/\ call' = "task apply_block"
         /\ result' = "Ok"
         /\ mining.tasks[arg'.task].stopped)]_vars

\* INITIAL_REWARD halved n times, each time by integer division
RECURSIVE Halved(_)
Halved(n) == IF n = 0 THEN INITIAL_MINING_REWARD ELSE Halved(n - 1) \div 2

\* C25: calculate_block_reward(h) is INITIAL_REWARD halved once for every
\* full interval of 210000 blocks below h and 0 once there are 64 of them or
\* more, and of two heights the higher never has the higher reward.
C25_RewardHalves ==
    /\ [](call = "calculate_block_reward" =>
            LET halvings == arg.height \div REWARD_HALVING_INTERVAL IN
            /\ result = Halved(halvings)
            /\ halvings >= MAX_HALVINGS => result = 0)
    /\ [][(call = "calculate_block_reward" /\ call' = "calculate_block_reward"
            /\ arg'.height >= arg.height) => result' <= result]_vars

\* the reward at the first height of the fourth period, which is odd before
\* it is halved again
C25_Witness ==
    /\ call = "calculate_block_reward"
    /\ arg.height = 4 * REWARD_HALVING_INTERVAL
    /\ result = 62

\* C26: calculate_merkle_root of the empty list is the all-zero digest, and
\* of a non-empty list it changes with any mutation of any transaction of
\* the list.
C26_RootCommitsToTransactions ==
    call = "calculate_merkle_root" =>
       /\ arg.transactions = <<>> => result.root = ZeroDigest
       /\ arg.mutated # arg.transactions => result.mutated_root # result.root

\* C27: a subdivision or transfer signed over its signable_message validates,
\* and with any signed field changed (parent or input id, children,
\* owner_address, new_owner, sender, fee, nonce, memo) it has another
\* signable message and fails signature validation.
C27_SignatureCoversFields ==
    call = "validate_signature" =>
       /\ result.signed = "Ok"
       /\ arg.mutated # arg.tx =>
             /\ result.mutated # "Ok"
             /\ signable_message(arg.mutated) # signable_message(arg.tx)

\* the fork branch that ends in the block apply_block was given is longer
\* than the active chain: the test of line 663
ReorganizationTriggered ==
    fork_chain_len(Insert(forks, arg'.hash, arg'), arg'.header.previous_hash, {})
       > Len(blocks)

\* C28: when apply_block accepts a block on a known non-tip block and no
\* reorganization is triggered, the block is added to the fork map and to
\* the block index, and the active chain, the UTXO set, the difficulty and
\* the mempool are unchanged.
C28_ForkRegistrationFrame ==
    [][(AcceptedOffTip /\ ~ReorganizationTriggered)
          => /\ forks' = Insert(forks, arg'.hash, arg')
             /\ block_index' = Insert(block_index, arg'.hash, arg')
             /\ blocks' = blocks
             /\ state' = state
             /\ difficulty' = difficulty
             /\ mempool' = mempool]_vars

\* apply_block has just registered a fork block beside an active chain of
\* two blocks or more, with a transaction waiting in the mempool
C28_Witness ==
    /\ call = "apply_block"
    /\ result = "Ok"
    /\ arg.hash \in DOMAIN forks
    /\ arg.hash \in DOMAIN block_index
    /\ \A i \in 1..Len(blocks) : blocks[i] # arg
    /\ Len(blocks) >= 2
    /\ arg.header.height <= Last(blocks).header.height
    /\ mempool # EmptyMap

\* C29: when add_transaction admits a transaction into a mempool that holds
\* MAX_TRANSACTIONS entries, exactly one entry is evicted, and no entry held
\* before the call declared a lower fee than the evicted one.  The unlisted
\* entries all declare u64::MAX.
C29_EvictsOneLowestFee ==
    [][(/\ call' = "add_transaction"
        /\ result' = "Ok"
        /\ Cardinality(DOMAIN mempool) + unlisted = MAX_TRANSACTIONS)
          => \E evicted \in DOMAIN mempool :
                /\ mempool' = Insert(Remove(mempool, {evicted}), TxHash(arg'), arg')
                /\ \A h \in DOMAIN mempool : fee(mempool[evicted]) <= fee(mempool[h])]_vars

\* C30: applying a transaction is idempotent: when apply_subdivision,
\* apply_coinbase at the same height, or the transfer owner update is made
\* a second time with the transaction it was just made with, the UTXO set
\* stays the one the first application left.
C30_ApplyIdempotent ==
    [][(/\ call \in {"apply_subdivision", "apply_coinbase", "apply_transfer"}
        /\ call' = call
        /\ arg' = arg)
          => state' = state]_vars

\* a subdivision was applied a second time: its parent was gone, the call
\* returned TriangleNotFound, and the children of the first application
\* are in the UTXO set
C30_Witness ==
    /\ call = "apply_subdivision"
    /\ result = "TriangleNotFound"
    /\ arg.tx = Sub1
    /\ \A i \in 1..3 : TriangleHash(arg.tx.children[i]) \in DOMAIN state
    /\ \E h \in DOMAIN state : state[h].owner = "B"

\* the nonces under which the header of a candidate has at least as many
\* leading zero hex characters as its difficulty
WinningNonces(candidate) ==
    { nonce \in 0..MaxNonce :
         LeadingZeros(calculate_hash([candidate EXCEPT !.header.nonce = nonce]))
            >= candidate.header.difficulty }

\* C31: mine_block returns the candidate with the first nonce, counting
\* from 0, under which its header hash has header.difficulty leading zero
\* hex characters, and with that hash as block.hash; what it returns passes
\* verify_proof_of_work; and it returns one at every difficulty the chain
\* reaches.
C31_MinesFirstNonce ==
    call = "mine_block" =>
       /\ result.err = "Ok"
       /\ result.block.header.nonce \in WinningNonces(arg)
       /\ \A nonce \in WinningNonces(arg) : result.block.header.nonce <= nonce
       /\ result.block = [arg EXCEPT !.header.nonce = result.block.header.nonce,
                                     !.hash = calculate_hash(result.block)]
       /\ verify_proof_of_work(result.block)

\* C32: every block apply_block accepts has a hash field equal to the hash
\* of its own header, block.hash = block.calculate_hash(); a block whose
\* hash field differs from it is rejected.
C32_AcceptedHashIsHeaderHash ==
    [][(call' = "apply_block" /\ result' = "Ok") => arg'.hash = calculate_hash(arg')]_vars

\* C33: every block apply_block accepts on the active tip declares in its
\* header the difficulty the chain has when it is accepted; a block that
\* declares a lower one is not accepted.
C33_AcceptedAtChainDifficulty ==
    [][(/\ call' = "apply_block"
        /\ result' = "Ok"
        /\ arg'.header.previous_hash = Last(blocks).hash)
          => arg'.header.difficulty = difficulty]_vars

\* C34: a Transfer or Subdivision of a block accepted on the tip spends a
\* triangle only if the address of its public key is the sender or owner
\* address it declares and that address owns the triangle when the
\* transaction's turn comes.
C34_OnlyOwnerSpends ==
    [][(/\ call' = "apply_block"
        /\ result' = "Ok"
        /\ arg'.header.previous_hash = Last(blocks).hash)
          => \A i \in 1..Len(arg'.transactions) :
                LET tx == arg'.transactions[i]
                    spent == IF tx.kind = "Transfer" THEN tx.input_hash ELSE tx.parent_hash
                    declared == IF tx.kind = "Transfer" THEN tx.sender ELSE tx.owner_address
                    before == apply_transactions(state, SubSeq(arg'.transactions, 1, i - 1),
                                                 arg'.header.height, 1).st
                IN  tx.kind # "Coinbase"
                      => /\ spent \in DOMAIN before
                         /\ address(tx.public_key) = declared
                         /\ declared = before[spent].owner]_vars

\* the blocks from genesis to the indexed block of this hash
RECURSIVE BranchOf(_, _)
BranchOf(index, hash) ==
    IF index[hash].header.height = 0 THEN <<index[hash]>>
    ELSE Append(BranchOf(index, index[hash].header.previous_hash), index[hash])

\* the UTXO set obtained by replaying that branch from genesis
BranchState(index, hash) == replay_blocks(GenesisUtxo, BranchOf(index, hash), 2)

\* C35: a block that extends an indexed block other than the tip is judged
\* against the UTXO state of its own branch: apply_block returns what
\* validate_block returns on the state replayed from the block's ancestors,
\* so it accepts a block valid there, rejects a block that spends a triangle
\* its branch lacks, and no reorganization fails during replay.
C35_ForkBlockJudgedOnBranch ==
    [][(/\ call' = "apply_block"
        /\ arg'.header.previous_hash \in DOMAIN block_index
        /\ arg'.header.previous_hash # Last(blocks).hash
        /\ BranchState(block_index, arg'.header.previous_hash).err = "Ok")
          => result' = validate_block(block_index,
                                      BranchState(block_index, arg'.header.previous_hash).st,
                                      Clock, arg')]_vars

\* C36: the active chain is well linked: it starts with the genesis block at
\* height 0, every later block has its index as height and the hash of the
\* block before it as previous_hash, and every active block is the entry of
\* block_index under its own hash.
C36_ActiveChainLinked ==
    /\ blocks[1] = genesis_block
    /\ \A i \in 2..Len(blocks) :
          /\ blocks[i].header.height = i - 1
          /\ blocks[i].header.previous_hash = blocks[i - 1].hash
    /\ \A i \in 1..Len(blocks) :
          /\ blocks[i].hash \in DOMAIN block_index
          /\ block_index[blocks[i].hash] = blocks[i]

\* where the active chain holds its Transfer and Subdivision transactions
ConfirmedAt ==
    {<<i, p>> \in (1..Len(blocks)) \X (1..(MaxListed + 1)) :
        p <= Len(blocks[i].transactions) /\ blocks[i].transactions[p].kind # "Coinbase"}

\* C37: no transaction is confirmed twice: no Transfer or Subdivision holds
\* two places of the active chain, and the mempool holds no transaction the
\* active chain already includes.
C37_ConfirmedOnce ==
    /\ \A at, other \in ConfirmedAt :
          blocks[at[1]].transactions[at[2]] = blocks[other[1]].transactions[other[2]]
             => at = other
    /\ \A h \in DOMAIN mempool : \A at \in ConfirmedAt :
          mempool[h] # blocks[at[1]].transactions[at[2]]

-----------------------------------------------------------------------------
(* SpecPersist: every block the chain accepts is saved at once with the    *)
(* state and difficulty of that moment, on a database that already holds   *)
(* the genesis block.                                                      *)

\* the database after save_blockchain_state(&chain.blocks[0], &chain.state,
\* chain.difficulty) on a new chain
InitPersist ==
    /\ blocks = <<genesis_block>>
    /\ block_index = Insert(EmptyMap, genesis_block.hash, genesis_block)
    /\ forks = EmptyMap
    /\ state = GenesisUtxo
    /\ difficulty = 2
    /\ mempool = EmptyMap
    /\ db = save_blockchain_state([blocks |-> EmptyMap, utxo_set |-> EmptyMap,
                                   difficulty |-> None],
                                  genesis_block, GenesisUtxo, 2, "none").database
    /\ peers = {}
    /\ security = SecurityManager_new
    /\ mining = MiningState_default
    /\ system_time = Clock
    /\ allowed = [kind \in RequestKinds |-> 0]
    /\ minted = 0
    /\ unlisted = 0
    /\ call = "save_blockchain_state"
    /\ arg = None
    /\ result = "Ok"
    /\ halted = FALSE

\* chain.apply_block(new_block) and, when it returns Ok,
\* db.save_blockchain_state(&new_block, &chain.state, chain.difficulty)
ApplyThenSave ==
    /\ ~halted
    /\ Cardinality(DOMAIN block_index) <= MaxTxBlocks + 1
    /\ \E previous_hash \in DOMAIN block_index :
       \E transactions \in ForkTxLists :
          LET block == BlockOn(block_index, previous_hash, FreshHash(block_index),
                               transactions)
              e == apply_block(Self, Clock, block)
          IN  /\ blocks' = e.chain.blocks
              /\ block_index' = e.chain.block_index
              /\ forks' = e.chain.forks
              /\ state' = e.chain.state
              /\ difficulty' = e.chain.difficulty
              /\ mempool' = e.chain.mempool
              /\ result' = e.result
              /\ halted' = e.hang
              /\ db' = IF e.result = "Ok"
                       THEN save_blockchain_state(db, block, e.chain.state,
                                                  e.chain.difficulty, "none").database
                       ELSE db
              /\ arg' = block
    /\ minted' = MintedAfter(blocks, blocks')
    /\ call' = "apply_block"
    /\ UNCHANGED <<peers, security, mining, system_time, allowed, unlisted>>

NextPersist == ApplyThenSave

SpecPersist == InitPersist /\ [][NextPersist]_vars

\* C38: when every accepted block is saved with save_blockchain_state, the
\* database loads to the chain held in memory: the same block at every
\* height, the same UTXO set and the same difficulty, also after a block was
\* stored on a side branch or caused a reorganization.
C38_DatabaseMatchesMemory ==
    LET loaded == load_blockchain(db) IN
    /\ loaded.blocks = blocks
    /\ loaded.state = state
    /\ loaded.difficulty = difficulty

\* the tasks that have not left the mining loop
ActiveTasks == {i \in DOMAIN mining.tasks : mining.tasks[i].at # "done"}

\* C39: at most one mining task is active at any time, whatever the order of
\* the start_mining and stop_mining requests: there are never two mining
\* loops building and applying blocks on the shared chain.
C39_AtMostOneMiningTask == Cardinality(ActiveTasks) <= 1

-----------------------------------------------------------------------------
(* SpecProgress: the API server's mining task on a chain whose mempool is  *)
(* offered subdivisions.  tokio schedules a spawned task again and again,  *)
(* so the steps of the task are weakly fair; requests are not.             *)

\* subdivisions of the genesis triangle and of its first child
PendingTxs == { Sub1, Sub2, SubChild }

SubmitPendingTransaction ==
    /\ Cardinality(DOMAIN mempool) < MaxPool
    /\ \E tx \in PendingTxs : AddTransaction(tx)

NextProgress == StartMiningCalled \/ TaskStep \/ SubmitPendingTransaction \/ TimeoutPasses

SpecProgress == Init /\ [][NextProgress]_vars /\ WF_vars(TaskStep)

\* C40: mining makes progress: while the flag stays set, a mining task that
\* can still add a block (the clock is past the tip's timestamp) eventually
\* applies a newly mined block, whatever transactions sit in the mempool.
C40_MiningProgress ==
    (/\ mining.is_mining
     /\ ActiveTasks # {}
     /\ ~halted
     /\ Cardinality(DOMAIN block_index) <= MaxTxBlocks
     /\ Last(blocks).header.timestamp < system_time)
        ~> (\/ ~mining.is_mining
            \/ call = "task apply_block" /\ result = "Ok")

====
